---- MODULE Spec2Model ----
(***************************************************************************)
(* Model of the artix-installer wizard: the checkpointed step controller   *)
(* (main.rs, session.rs), the step functions (steps/*.rs) and the command  *)
(* runner with its self-healing retry (cmd.rs).                            *)
(*                                                                         *)
(* Text is modelled as sequences of one-character strings so that the      *)
(* checkpoint file is really formatted by save and really parsed by load.  *)
(***************************************************************************)
EXTENDS Integers, Sequences, FiniteSets, TLC

(***************************************************************************)
(* Bounds of the model (not program constants).                            *)
(***************************************************************************)
\* how many times the installer process is launched in one behaviour
MaxRuns == 2
\* how many checkpoint-file operations may fail in one behaviour
MaxIoFaults == 1
\* nonzero exit codes an external program may report: 1..MaxExitCode
MaxExitCode == 1

(***************************************************************************)
(* Text helpers.                                                           *)
(***************************************************************************)
NL == "\n"

Whitespace == {" ", "\t", "\r", "\n"}

DigitChars == <<"0", "1", "2", "3", "4", "5", "6", "7", "8", "9">>

\* value of a decimal digit character, -1 when c is not a digit
DigitVal(c) ==
  IF \E i \in 1..10 : DigitChars[i] = c
  THEN (CHOOSE i \in 1..10 : DigitChars[i] = c) - 1
  ELSE -1

RECURSIVE ToDec(_)
\* format!("{}", n) for an unsigned integer
ToDec(n) ==
  IF n < 10 THEN <<DigitChars[n + 1]>>
  ELSE Append(ToDec(n \div 10), DigitChars[(n % 10) + 1])

RECURSIVE TrimStart(_)
TrimStart(s) ==
  IF s # <<>> /\ Head(s) \in Whitespace THEN TrimStart(Tail(s)) ELSE s

RECURSIVE TrimEnd(_)
TrimEnd(s) ==
  IF s # <<>> /\ s[Len(s)] \in Whitespace
  THEN TrimEnd(SubSeq(s, 1, Len(s) - 1)) ELSE s

\* str::trim
Trim(s) == TrimEnd(TrimStart(s))

RECURSIVE IndexFrom(_, _, _)
\* index of the first occurrence of character c in s at or after i, 0 when
\* there is none
IndexFrom(s, c, i) ==
  IF i > Len(s) THEN 0
  ELSE IF s[i] = c THEN i
  ELSE IndexFrom(s, c, i + 1)

\* index of the first occurrence of character c in s, 0 when absent
IndexOf(s, c) == IndexFrom(s, c, 1)

RECURSIVE Lines(_)
\* str::lines: split at "\n", a trailing "\r" of a line is dropped, and a
\* final empty piece is not a line
Lines(s) ==
  IF s = <<>> THEN <<>>
  ELSE LET i == IndexOf(s, NL)
           raw == IF i = 0 THEN s ELSE SubSeq(s, 1, i - 1)
           line == IF raw # <<>> /\ raw[Len(raw)] = "\r"
                   THEN SubSeq(raw, 1, Len(raw) - 1) ELSE raw
           rest == IF i = 0 THEN <<>> ELSE SubSeq(s, i + 1, Len(s))
       IN <<line>> \o Lines(rest)

RECURSIVE ParseDigits(_, _)
\* accumulate decimal digits; -1 on a non-digit or on overflow of u8
ParseDigits(s, acc) ==
  IF s = <<>> THEN acc
  ELSE LET d == DigitVal(Head(s))
       IN IF d < 0 \/ acc * 10 + d > 255 THEN -1
          ELSE ParseDigits(Tail(s), acc * 10 + d)

\* ParseU8OrZero saturating: digits whose value exceeds 255 give 255
ParseU8OrZero_saturating(s) ==
  LET body == IF s # <<>> /\ Head(s) = "+" THEN Tail(s) ELSE s
      v == IF body = <<>> THEN -1 ELSE ParseDigits(body, 0)
  IN IF v >= 0 THEN v
     ELSE IF body # <<>> /\ \A i \in 1..Len(body) : DigitVal(body[i]) >= 0
     THEN 255
     ELSE 0

\* str::parse::<u8>().unwrap_or(0): an optional "+", then at least one digit
ParseU8OrZero(s) ==
  LET body == IF s # <<>> /\ Head(s) = "+" THEN Tail(s) ELSE s
      v == IF body = <<>> THEN -1 ELSE ParseDigits(body, 0)
  IN IF v < 0 THEN 0 ELSE v

(***************************************************************************)
(* config.rs / session.rs: kernel variants and the checkpoint record.      *)
(***************************************************************************)
KernelVariant == {"Stable", "Lts", "Zen"}

as_str(k) ==
  CASE k = "Stable" -> <<"s", "t", "a", "b", "l", "e">>
    [] k = "Lts" -> <<"l", "t", "s">>
    [] k = "Zen" -> <<"z", "e", "n">>

\* from_str without its arm for zen
from_str_no_zen(s) ==
  IF s = <<"l", "t", "s">> THEN "Lts" ELSE "Stable"

from_str(s) ==
  IF s = <<"l", "t", "s">> THEN "Lts"
  ELSE IF s = <<"z", "e", "n">> THEN "Zen"
  ELSE "Stable"

\* Option<T>: None is the empty set, Some(v) is {v}
None == {}
Some(v) == {v}
Unwrap(o) == CHOOSE v \in o : TRUE

\* Session::default()
SessionDefault ==
  [last_step |-> 0, disk |-> None, efi_partition |-> None,
   swap_partition |-> None, root_partition |-> None, kernel |-> None]

KeyStep == <<"s", "t", "e", "p">>
KeyDisk == <<"d", "i", "s", "k">>
KeyEfi == <<"e", "f", "i">>
KeySwap == <<"s", "w", "a", "p">>
KeyRoot == <<"r", "o", "o", "t">>
KeyKernel == <<"k", "e", "r", "n", "e", "l">>

\* format!("{key}={val}\n")
KvLine(key, val) == key \o <<"=">> \o val \o <<NL>>

\* Serialize with the swap line forgotten
Serialize_no_swap(s) ==
  KvLine(KeyStep, ToDec(s.last_step))
  \o (IF s.disk = None THEN <<>> ELSE KvLine(KeyDisk, Unwrap(s.disk)))
  \o (IF s.efi_partition = None THEN <<>>
      ELSE KvLine(KeyEfi, Unwrap(s.efi_partition)))
  \o (IF s.root_partition = None THEN <<>>
      ELSE KvLine(KeyRoot, Unwrap(s.root_partition)))
  \o (IF s.kernel = None THEN <<>>
      ELSE KvLine(KeyKernel, as_str(Unwrap(s.kernel))))

\* the text Session::save writes
Serialize(s) ==
  KvLine(KeyStep, ToDec(s.last_step))
  \o (IF s.disk = None THEN <<>> ELSE KvLine(KeyDisk, Unwrap(s.disk)))
  \o (IF s.efi_partition = None THEN <<>>
      ELSE KvLine(KeyEfi, Unwrap(s.efi_partition)))
  \o (IF s.swap_partition = None THEN <<>>
      ELSE KvLine(KeySwap, Unwrap(s.swap_partition)))
  \o (IF s.root_partition = None THEN <<>>
      ELSE KvLine(KeyRoot, Unwrap(s.root_partition)))
  \o (IF s.kernel = None THEN <<>>
      ELSE KvLine(KeyKernel, as_str(Unwrap(s.kernel))))

\* ApplyLine taking a line of an unknown key for the disk
ApplyLine_unknown_is_disk(s, line) ==
  LET i == IndexOf(line, "=")
      key == Trim(SubSeq(line, 1, i - 1))
      val == Trim(SubSeq(line, i + 1, Len(line)))
  IN IF i = 0 THEN s
     ELSE IF key = KeyStep THEN [s EXCEPT !.last_step = ParseU8OrZero(val)]
     ELSE IF key = KeyEfi THEN [s EXCEPT !.efi_partition = Some(val)]
     ELSE IF key = KeySwap THEN [s EXCEPT !.swap_partition = Some(val)]
     ELSE IF key = KeyRoot THEN [s EXCEPT !.root_partition = Some(val)]
     ELSE IF key = KeyKernel THEN [s EXCEPT !.kernel = Some(from_str(val))]
     ELSE [s EXCEPT !.disk = Some(val)]

\* one iteration of the loop of Session::load
ApplyLine(s, line) ==
  LET i == IndexOf(line, "=")
      key == Trim(SubSeq(line, 1, i - 1))
      val == Trim(SubSeq(line, i + 1, Len(line)))
  IN IF i = 0 THEN s
     ELSE IF key = KeyStep THEN [s EXCEPT !.last_step = ParseU8OrZero(val)]
     ELSE IF key = KeyDisk THEN [s EXCEPT !.disk = Some(val)]
     ELSE IF key = KeyEfi THEN [s EXCEPT !.efi_partition = Some(val)]
     ELSE IF key = KeySwap THEN [s EXCEPT !.swap_partition = Some(val)]
     ELSE IF key = KeyRoot THEN [s EXCEPT !.root_partition = Some(val)]
     ELSE IF key = KeyKernel THEN [s EXCEPT !.kernel = Some(from_str(val))]
     ELSE s

RECURSIVE ApplyLines(_, _)
ApplyLines(s, ls) ==
  IF ls = <<>> THEN s ELSE ApplyLines(ApplyLine(s, Head(ls)), Tail(ls))

\* the checkpoint file: absent, or present with some text
NoFile == [exists |-> FALSE, content |-> <<>>]
FileWith(text) == [exists |-> TRUE, content |-> text]

\* load handing out a record whose counter is 0
load_zero_is_some(f) ==
  IF ~f.exists THEN None
  ELSE Some(ApplyLines(SessionDefault, Lines(f.content)))

\* Session::load: None when the file is absent or the counter is 0
load(f) ==
  IF ~f.exists THEN None
  ELSE LET s == ApplyLines(SessionDefault, Lines(f.content))
       IN IF s.last_step = 0 THEN None ELSE Some(s)

\* Session::to_config
to_config(s) ==
  [efi_partition |-> IF s.efi_partition = None THEN <<>>
                     ELSE Unwrap(s.efi_partition),
   swap_partition |-> s.swap_partition,
   root_partition |-> IF s.root_partition = None THEN <<>>
                      ELSE Unwrap(s.root_partition)]

(***************************************************************************)
(* error.rs: InstallerError, with Ok for the success of a Result.          *)
(***************************************************************************)
Err(kind, program, code) == [kind |-> kind, program |-> program, code |-> code]

Ok == Err("Ok", "", 0)
Io == Err("Io", "", 0)
Prompt == Err("Prompt", "", 0)
Cancelled == Err("Cancelled", "", 0)
NotRoot == Err("NotRoot", "", 0)
CommandNotFound(program) == Err("CommandNotFound", program, 0)
CommandFailed(program, code) == Err("CommandFailed", program, code)

(***************************************************************************)
(* What the environment answers.                                           *)
(***************************************************************************)
\* the answer to a dialoguer prompt: interact() may itself fail
ConfirmAnswers == {"yes", "no", "err"}

\* the result of spawning a process and waiting for it: the spawn fails with
\* ErrorKind::NotFound or with another io::Error, or the process ran and
\* ended with an exit code, or without one (killed by a signal)
SpawnResults ==
  {[spawn |-> "NotFound", has_code |-> FALSE, code |-> 0],
   [spawn |-> "OtherErr", has_code |-> FALSE, code |-> 0],
   [spawn |-> "Ran", has_code |-> FALSE, code |-> 0]}
  \cup {[spawn |-> "Ran", has_code |-> TRUE, code |-> c] : c \in 0..MaxExitCode}

\* ExitStatus::success
success(r) == r.spawn = "Ran" /\ r.has_code /\ r.code = 0

\* status.code().unwrap_or(-1)
code_or_minus_one(r) == IF r.has_code THEN r.code ELSE -1

(***************************************************************************)
(* cmd.rs: classification, dependency resolver.                            *)
(***************************************************************************)
\* not_found_or_io taking every spawn error for an I/O error
not_found_or_io_always_io(program, r) == Io

not_found_or_io(program, r) ==
  IF r.spawn = "NotFound" THEN CommandNotFound(program) ELSE Io

\* package_for without its table: every program resolves to itself
package_for_identity(program) == program

package_for(program) ==
  CASE program \in {"mkfs.fat", "mkfs.vfat", "fsck.fat", "fatlabel"}
         -> "dosfstools"
    [] program \in {"mkfs.ext4", "mkfs.ext3", "mkfs.ext2", "e2fsck",
                    "resize2fs", "tune2fs"} -> "e2fsprogs"
    [] program \in {"mkfs.btrfs", "btrfs"} -> "btrfs-progs"
    [] program \in {"mkfs.xfs", "xfs_repair"} -> "xfsprogs"
    [] program \in {"mkswap", "swapon", "swapoff", "mount", "umount",
                    "cfdisk", "fdisk", "lsblk", "blkid", "findmnt"}
         -> "util-linux"
    [] program \in {"basestrap", "fstabgen", "artix-chroot"} -> "artools"
    [] program \in {"rc-service", "rc-update", "openrc"} -> "openrc"
    [] program \in {"ntpd", "ntpdate", "ntpq"} -> "ntp"
    [] OTHER -> program

\* what the environment answers to one attempt: run_append_to_file first
\* opens the target file, which may fail; the other operations open nothing
NoSpawn == [spawn |-> "None", has_code |-> FALSE, code |-> 0]

AttemptEnvs(op) ==
  {[open_ok |-> TRUE, spawned |-> r] : r \in SpawnResults}
  \cup (IF op = "run_append_to_file"
        THEN {[open_ok |-> FALSE, spawned |-> NoSpawn]} ELSE {})

\* the answer of a spawn that opens no file
Spawned(r) == [open_ok |-> TRUE, spawned |-> r]

\* attempt where run_capture takes every spawn error for an I/O error
attempt_capture_unclassified(op, p, env) ==
  IF op = "run_append_to_file" /\ ~env.open_ok THEN Io
  ELSE IF env.spawned.spawn # "Ran"
       THEN (IF op = "run_capture" THEN Io
             ELSE not_found_or_io(p, env.spawned))
  ELSE IF ~success(env.spawned)
       THEN CommandFailed(p, code_or_minus_one(env.spawned))
  ELSE Ok

\* the closure `attempt` of run_interactive, run_with_spinner, run_capture
\* and run_append_to_file: one spawn of program p, classified
attempt(op, p, env) ==
  IF op = "run_append_to_file" /\ ~env.open_ok THEN Io
  ELSE IF env.spawned.spawn # "Ran" THEN not_found_or_io(p, env.spawned)
  ELSE IF ~success(env.spawned)
       THEN CommandFailed(p, code_or_minus_one(env.spawned))
  ELSE Ok

(***************************************************************************)
(* What the operator can choose.                                           *)
(***************************************************************************)
SDA == <<"/", "d", "e", "v", "/", "s", "d", "a">>
SDB == <<"/", "d", "e", "v", "/", "s", "d", "b">>

\* the disks lsblk lists, which are also the paths the operator may type
Disks == {SDA, SDB}

\* the partitions the operator may assign on a disk
EfiChoices(d) == {Append(d, "1")}
SwapChoices(d) == {None, Some(Append(d, "2"))}
RootChoices(d) == {Append(d, "3")}

(***************************************************************************)
(* State.                                                                  *)
(***************************************************************************)
VARIABLES
  pc,           \* where the process is: "off", a label of run(), "exited"
  sess,         \* the in-memory Session of run()
  file,         \* the checkpoint file /tmp/artix-installer.session
  cmd,          \* the command-runner invocation in progress
  loc,          \* locals of run() and of the step functions
  exit_status,  \* exit status of the process once pc = "exited"
  reported,     \* the error main() printed, Ok when none
  runs,         \* launches so far
  io_faults,    \* checkpoint-file operations that failed so far
  executed,     \* history: steps whose action was called in this run, in order
  completed,    \* history: steps whose action returned Ok since the last clear
  resume,       \* history: outcome of check_resume in this run
  loaded,       \* history: the counter check_resume loaded in this run
  last_save,    \* history: how the last save of this run ended
  dry_run,      \* the process-wide dry-run flag of the launches
  answer        \* history: the operator's last answer, in this run, to a
                \* confirmation a step requires before it goes on

vars == <<pc, sess, file, cmd, loc, exit_status, reported, runs, io_faults,
          executed, completed, resume, loaded, last_save, dry_run, answer>>

\* crate::is_dry_run(): reads the flag
is_dry_run == dry_run

\* no invocation in progress
NoCmd == [phase |-> "none", op |-> "", program |-> "", result |-> Ok,
          log |-> <<>>]

\* entry of a run_* operation
StartCmd(op, program) ==
  [phase |-> "attempt", op |-> op, program |-> program, result |-> Ok,
   log |-> <<>>]

\* an event of the invocation in progress: what was done (attempt, prompt,
\* pacman, probe), on what (program or package), and what the environment
\* answered (the operator's answer, or the outcome of the spawn)
Ev(ev, what, ans, env) == [ev |-> ev, what |-> what, ans |-> ans, env |-> env]

\* no call of run_best_effort is being returned from
NoBestEffort == [called |-> FALSE, spawned |-> NoSpawn, result |-> Ok]

\* pb is the progress indicator fstab::generate holds: "ticking" from
\* ui::spinner until finish_and_clear, "none" otherwise; best_effort is the
\* call of run_best_effort that is returning to mount::run
NoLoc == [saved |-> None, disk |-> <<>>, config |-> to_config(SessionDefault),
          kernel |-> "Stable", listed |-> FALSE, pb |-> "none",
          best_effort |-> NoBestEffort]

StepLabels == <<"step1", "step2", "step3", "step4", "step5", "step6",
                "step7", "step8", "step9">>

\* the state before the first launch; the switch --dry-run is given on every
\* launch of a behaviour (d) or on none
Start(d) ==
  /\ pc = "off"
  /\ sess = SessionDefault
  /\ file = NoFile
  /\ cmd = NoCmd
  /\ loc = NoLoc
  /\ exit_status = 0
  /\ reported = Ok
  /\ runs = 0
  /\ io_faults = 0
  /\ executed = <<>>
  /\ completed = {}
  /\ resume = "none"
  /\ loaded = 0
  /\ last_save = "none"
  /\ dry_run = d
  /\ answer = "none"

Init == Start(FALSE)

Running == pc \notin {"off", "exited"}

(***************************************************************************)
(* cmd.rs: one invocation of run_interactive, run_with_spinner,            *)
(* run_capture or run_append_to_file, with offer_install.                  *)
(***************************************************************************)
CmdFrame ==
  UNCHANGED <<pc, sess, file, loc, exit_status, reported, runs, io_faults,
              executed, completed, resume, loaded,
                 last_save, dry_run, answer>>

\* FirstAttemptArm recovering from every error, not only from NotFound
FirstAttemptArm_any_error(r) == IF r.kind # "Ok" THEN "confirm" ELSE "ret"

\* match attempt(program, args): the arm chosen for the first attempt
FirstAttemptArm(r) == IF r.kind = "CommandNotFound" THEN "confirm" ELSE "ret"

\* the first attempt(program, args) and the match on its result
CmdAttempt ==
  /\ Running
  /\ cmd.phase = "attempt"
  /\ \E env \in AttemptEnvs(cmd.op) :
       LET r == attempt(cmd.op, cmd.program, env)
           logged == [cmd EXCEPT !.log = Append(@, Ev("attempt", cmd.program,
                                                      "", env))]
       IN cmd' = IF FirstAttemptArm(r) = "confirm"
                 THEN [logged EXCEPT !.phase = "confirm"]
                 ELSE [logged EXCEPT !.phase = "ret", !.result = r]
  /\ CmdFrame

\* AfterConfirm going on to pacman although the operator declined
AfterConfirm_ignore_no(program, ans) ==
  CASE ans = "err" -> [phase |-> "ret", result |-> Prompt]
    [] ans = "no" -> [phase |-> "pacman", result |-> Ok]
    [] ans = "yes" -> [phase |-> "pacman", result |-> Ok]

\* offer_install: what follows the answer to "Install '<pkg>' with pacman?"
AfterConfirm(program, ans) ==
  CASE ans = "err" -> [phase |-> "ret", result |-> Prompt]
    [] ans = "no" -> [phase |-> "ret", result |-> CommandNotFound(program)]
    [] ans = "yes" -> [phase |-> "pacman", result |-> Ok]

\* offer_install: the confirmation prompt
OfferInstallConfirm ==
  /\ Running
  /\ cmd.phase = "confirm"
  /\ \E ans \in ConfirmAnswers :
       LET a == AfterConfirm(cmd.program, ans)
       IN cmd' = [cmd EXCEPT !.phase = a.phase, !.result = a.result,
                             !.log = Append(@, Ev("prompt",
                                                  package_for(cmd.program),
                                                  ans, Spawned(NoSpawn)))]
  /\ CmdFrame

\* AfterPacman masking a failed pacman as a command that is not found
AfterPacman_masked(r) ==
  IF r.spawn # "Ran" \/ ~success(r)
  THEN [phase |-> "ret", result |-> CommandNotFound("pacman")]
  ELSE [phase |-> "which", result |-> Ok]

\* AfterPacman reporting the program that was looked for when pacman itself
\* cannot be spawned
AfterPacman_names_program(r) ==
  IF r.spawn # "Ran"
  THEN [phase |-> "ret", result |-> not_found_or_io(cmd.program, r)]
  ELSE IF ~success(r)
  THEN [phase |-> "ret",
        result |-> CommandFailed("pacman", code_or_minus_one(r))]
  ELSE [phase |-> "which", result |-> Ok]

\* offer_install: what follows pacman -Sy --noconfirm <pkg>
AfterPacman(r) ==
  IF r.spawn # "Ran"
  THEN [phase |-> "ret", result |-> not_found_or_io("pacman", r)]
  ELSE IF ~success(r)
  THEN [phase |-> "ret",
        result |-> CommandFailed("pacman", code_or_minus_one(r))]
  ELSE [phase |-> "which", result |-> Ok]

\* offer_install: the package-manager invocation
OfferInstallPacman ==
  /\ Running
  /\ cmd.phase = "pacman"
  /\ \E r \in SpawnResults :
       LET a == AfterPacman(r)
       IN cmd' = [cmd EXCEPT !.phase = a.phase, !.result = a.result,
                             !.log = Append(@, Ev("pacman",
                                                  package_for(cmd.program),
                                                  "", Spawned(r)))]
  /\ CmdFrame

\* AfterWhich trusting pacman: the probe's answer is not looked at
AfterWhich_unchecked(program, r) == [phase |-> "retry", result |-> Ok]

\* offer_install: what follows the probe `which <program>`
AfterWhich(program, r) ==
  LET available == IF r.spawn = "Ran" THEN success(r) ELSE FALSE
  IN IF ~available
     THEN [phase |-> "ret", result |-> CommandNotFound(program)]
     ELSE [phase |-> "retry", result |-> Ok]

\* OfferInstallWhich probing again for as long as the program is missing
OfferInstallWhich_reprobe ==
  /\ Running
  /\ cmd.phase = "which"
  /\ \E r \in SpawnResults :
       LET a == AfterWhich(cmd.program, r)
       IN cmd' = [cmd EXCEPT !.phase = IF a.phase = "ret" THEN "which"
                                       ELSE a.phase,
                             !.result = a.result,
                             !.log = Append(@, Ev("probe", cmd.program, "",
                                                  Spawned(r)))]
  /\ CmdFrame

\* offer_install: the existence probe
OfferInstallWhich ==
  /\ Running
  /\ cmd.phase = "which"
  /\ \E r \in SpawnResults :
       LET a == AfterWhich(cmd.program, r)
       IN cmd' = [cmd EXCEPT !.phase = a.phase, !.result = a.result,
                             !.log = Append(@, Ev("probe", cmd.program, "",
                                                  Spawned(r)))]
  /\ CmdFrame

\* CmdRetry starting another recovery when the retry is NotFound again
CmdRetry_again ==
  /\ Running
  /\ cmd.phase = "retry"
  /\ \E env \in AttemptEnvs(cmd.op) :
       LET r == attempt(cmd.op, cmd.program, env)
       IN cmd' = [cmd EXCEPT !.phase = IF r.kind = "CommandNotFound"
                                       THEN "confirm" ELSE "ret",
                             !.result = r,
                             !.log = Append(@, Ev("attempt", cmd.program, "",
                                                  env))]
  /\ CmdFrame

\* the second attempt(program, args), whose result is the result of run_*
CmdRetry ==
  /\ Running
  /\ cmd.phase = "retry"
  /\ \E env \in AttemptEnvs(cmd.op) :
       cmd' = [cmd EXCEPT !.phase = "ret",
                          !.result = attempt(cmd.op, cmd.program, env),
                          !.log = Append(@, Ev("attempt", cmd.program, "",
                                               env))]
  /\ CmdFrame

(***************************************************************************)
(* main.rs: process start and end, check_root, check_resume.               *)
(***************************************************************************)
\* the process is started
Launch ==
  /\ pc \in {"off", "exited"}
  /\ runs < MaxRuns
  /\ runs' = runs + 1
  /\ pc' = "check_root"
  /\ sess' = SessionDefault
  /\ cmd' = NoCmd
  /\ loc' = NoLoc
  /\ exit_status' = 0
  /\ reported' = Ok
  /\ executed' = <<>>
  /\ resume' = "none"
  /\ loaded' = 0
  /\ last_save' = "none"
  /\ answer' = "none"
  /\ UNCHANGED <<file, io_faults, completed, dry_run>>

\* the process is killed (crash, reboot, Ctrl-C): only the file survives
Interrupt ==
  /\ Running
  /\ pc' = "off"
  /\ sess' = SessionDefault
  /\ cmd' = NoCmd
  /\ loc' = NoLoc
  /\ executed' = <<>>
  /\ resume' = "none"
  /\ loaded' = 0
  /\ last_save' = "none"
  /\ answer' = "none"
  /\ UNCHANGED <<file, exit_status, reported, runs, io_faults, completed,
                 dry_run>>

\* run() returns Err(e): main prints the error and exits with status 1
Abort(e) ==
  /\ pc' = "exited"
  /\ exit_status' = 1
  /\ reported' = e
  /\ cmd' = NoCmd
  /\ loc' = NoLoc
  /\ UNCHANGED <<sess, file, runs, io_faults, executed, completed, resume,
                 loaded, last_save, dry_run>>

\* Abort where no required confirmation is answered
Fail(e) == Abort(e) /\ UNCHANGED answer

\* RequiredConfirm going on with the operation although the operator declined
RequiredConfirm_decline_goes_on(ans, op, program, label) ==
  /\ answer' = ans
  /\ CASE ans = "err" -> Abort(Prompt)
       [] ans \in {"no", "yes"} ->
            /\ pc' = label
            /\ cmd' = StartCmd(op, program)
            /\ UNCHANGED <<sess, file, loc, exit_status, reported, runs,
                           io_faults, executed, completed, resume, loaded,
                           last_save, dry_run>>

\* a required confirmation is answered: the step returns Err(Prompt) when
\* interact() fails and Err(Cancelled) when the operator declines, and goes
\* on to call program through the operation op otherwise
RequiredConfirm(ans, op, program, label) ==
  /\ answer' = ans
  /\ CASE ans = "err" -> Abort(Prompt)
       [] ans = "no" -> Abort(Cancelled)
       [] ans = "yes" ->
            /\ pc' = label
            /\ cmd' = StartCmd(op, program)
            /\ UNCHANGED <<sess, file, loc, exit_status, reported, runs,
                           io_faults, executed, completed, resume, loaded,
                           last_save, dry_run>>

\* control moves on, nothing else changes
Goto(label) ==
  /\ pc' = label
  /\ UNCHANGED <<sess, file, cmd, loc, exit_status, reported, runs,
                 io_faults, executed, completed, resume, loaded,
                 last_save, dry_run, answer>>

\* a run_* operation is entered; the caller waits at label
Call(op, program, label) ==
  /\ pc' = label
  /\ cmd' = StartCmd(op, program)

\* clear leaving the file in place
clear_noop(f) == f

\* Session::clear: remove_file, whose error (no such file) is dropped; the
\* removal of an existing file is taken to succeed
clear(f) == NoFile

check_root ==
  /\ pc = "check_root"
  /\ \E is_root \in BOOLEAN :
       IF is_root THEN Goto("check_resume") ELSE Fail(NotRoot)

\* check_resume up to the prompt: Session::load
check_resume ==
  /\ pc = "check_resume"
  /\ LET saved == load(file)
     IN IF saved = None
        THEN /\ pc' = "step1"
             /\ sess' = SessionDefault
             /\ resume' = "fresh"
             /\ UNCHANGED <<loc, loaded>>
        ELSE /\ pc' = "resume_confirm"
             /\ loc' = [loc EXCEPT !.saved = saved]
             /\ loaded' = Unwrap(saved).last_step
             /\ UNCHANGED <<sess, resume>>
  /\ UNCHANGED <<file, cmd, exit_status, reported, runs, io_faults, executed,
                 completed,
                 last_save, dry_run, answer>>

\* resume_confirm where a decline resets the counter and keeps the facts
resume_confirm_decline_keeps_facts ==
  /\ pc = "resume_confirm"
  /\ \E ans \in ConfirmAnswers :
       CASE ans = "err" -> Fail(Prompt)
         [] ans = "yes" ->
              /\ pc' = "step1"
              /\ sess' = Unwrap(loc.saved)
              /\ resume' = "accepted"
              /\ loc' = NoLoc
              /\ UNCHANGED <<file, cmd, exit_status, reported, runs,
                             io_faults, executed, completed, loaded,
                 last_save, dry_run, answer>>
         [] ans = "no" ->
              /\ pc' = "step1"
              /\ file' = clear(file)
              /\ completed' = {}
              /\ sess' = [Unwrap(loc.saved) EXCEPT !.last_step = 0]
              /\ resume' = "declined"
              /\ loc' = NoLoc
              /\ UNCHANGED <<cmd, exit_status, reported, runs, io_faults,
                             executed, loaded,
                 last_save, dry_run, answer>>

\* check_resume: the answer to "Resume from last checkpoint?"
resume_confirm ==
  /\ pc = "resume_confirm"
  /\ \E ans \in ConfirmAnswers :
       CASE ans = "err" -> Fail(Prompt)
         [] ans = "yes" ->
              /\ pc' = "step1"
              /\ sess' = Unwrap(loc.saved)
              /\ resume' = "accepted"
              /\ loc' = NoLoc
              /\ UNCHANGED <<file, cmd, exit_status, reported, runs,
                             io_faults, executed, completed, loaded,
                 last_save, dry_run, answer>>
         [] ans = "no" ->
              /\ pc' = "step1"
              /\ file' = clear(file)
              /\ completed' = {}
              /\ sess' = SessionDefault
              /\ resume' = "declined"
              /\ loc' = NoLoc
              /\ UNCHANGED <<cmd, exit_status, reported, runs, io_faults,
                             executed, loaded,
                 last_save, dry_run, answer>>

(***************************************************************************)
(* main.rs: the gate of a step and the completion of a step.               *)
(***************************************************************************)
\* the gate off by one: a step equal to the counter runs again
Gated_off_by_one(s, i) == s.last_step <= i

\* if sess.last_step < i
Gated(s, i) == s.last_step < i

\* the action of step i is called
Enter(i) == executed' = Append(executed, i)

\* where run() continues after the save that follows step i
AfterSave(i) == StepLabels[i + 1]

\* sess.save().ok(), first half: File::create truncates the file, or fails
\* and leaves it as it was, in which case save returns and run() goes on
save_create(s) ==
  \/ /\ file' = FileWith(<<>>)
     /\ pc' = "save_write"
     /\ UNCHANGED <<io_faults, last_save>>
  \/ /\ io_faults < MaxIoFaults
     /\ io_faults' = io_faults + 1
     /\ file' = file
     /\ last_save' = "err"
     /\ pc' = AfterSave(s.last_step)

\* save_write storing the counter of the step before
save_write_stale ==
  /\ pc = "save_write"
  /\ \/ /\ file' = FileWith(Serialize([sess EXCEPT !.last_step = @ - 1]))
        /\ last_save' = "ok"
        /\ UNCHANGED io_faults
     \/ /\ io_faults < MaxIoFaults
        /\ io_faults' = io_faults + 1
        /\ last_save' = "err"
        /\ file' = file
  /\ pc' = AfterSave(sess.last_step)
  /\ UNCHANGED <<sess, cmd, loc, exit_status, reported, runs, executed,
                 completed, resume, loaded, dry_run, answer>>

\* sess.save().ok(), second half: write_all writes the text, or fails.  The
\* text is far shorter than a block of the file system, so it is written by
\* one write that either stores all of it or fails and stores nothing; in
\* both cases save returns and run() goes on
save_write ==
  /\ pc = "save_write"
  /\ \/ /\ file' = FileWith(Serialize(sess))
        /\ last_save' = "ok"
        /\ UNCHANGED io_faults
     \/ /\ io_faults < MaxIoFaults
        /\ io_faults' = io_faults + 1
        /\ last_save' = "err"
        /\ file' = file
  /\ pc' = AfterSave(sess.last_step)
  /\ UNCHANGED <<sess, cmd, loc, exit_status, reported, runs, executed,
                 completed, resume, loaded, dry_run, answer>>

\* the action of step i returned Ok: the record is updated to s (counter i
\* and the facts of the step) and saved
Complete(i, s) ==
  /\ sess' = s
  /\ completed' = completed \cup {i}
  /\ cmd' = NoCmd
  /\ save_create(s)
  /\ UNCHANGED <<exit_status, reported, runs, resume, loaded, dry_run, answer>>

\* a run_* operation has returned to its caller
Ret == cmd.phase = "ret"

(***************************************************************************)
(* Step 1: steps::uefi::check.                                             *)
(***************************************************************************)
step1 ==
  /\ pc = "step1"
  /\ IF Gated(sess, 1)
     THEN /\ Enter(1)
          /\ Complete(1, [sess EXCEPT !.last_step = 1])
          /\ UNCHANGED loc
     ELSE Goto("step2")

(***************************************************************************)
(* Step 2: steps::partition::run.                                          *)
(***************************************************************************)
step2 ==
  /\ pc = "step2"
  /\ IF Gated(sess, 2)
     THEN /\ Enter(2)
          /\ pc' = "list_disks"
          /\ cmd' = IF is_dry_run THEN NoCmd
                    ELSE StartCmd("run_capture", "lsblk")
          /\ UNCHANGED <<sess, file, loc, exit_status, reported, runs,
                         io_faults, completed, resume, loaded,
                 last_save, dry_run, answer>>
     ELSE /\ pc' = "step3"
          /\ loc' = [loc EXCEPT !.disk = IF sess.disk = None THEN <<>>
                                         ELSE Unwrap(sess.disk)]
          /\ UNCHANGED <<sess, file, cmd, exit_status, reported, runs,
                         io_faults, executed, completed, resume, loaded,
                 last_save, dry_run, answer>>

\* what list_disks and list_partitions may return: in dry-run the mock
\* list, which is not empty, without a call of run_capture; otherwise an
\* error of run_capture gives the empty list, and the output of a
\* successful lsblk may list nothing either
Listings ==
  IF is_dry_run THEN {TRUE}
  ELSE IF cmd.result = Ok THEN BOOLEAN ELSE {FALSE}

\* lsblk::list_disks
list_disks ==
  /\ pc = "list_disks"
  /\ is_dry_run \/ Ret
  /\ \E listed \in Listings :
       loc' = [loc EXCEPT !.listed = listed]
  /\ pc' = "select_disk"
  /\ cmd' = NoCmd
  /\ UNCHANGED <<sess, file, exit_status, reported, runs, io_faults,
                 executed, completed, resume, loaded,
                 last_save, dry_run, answer>>

\* select_disk: Input when nothing is listed, Select otherwise
select_disk ==
  /\ pc = "select_disk"
  /\ \/ Fail(Prompt)
     \/ \E d \in Disks :
          /\ pc' = "confirm_cfdisk"
          /\ loc' = [loc EXCEPT !.disk = d, !.listed = FALSE]
          /\ UNCHANGED <<sess, file, cmd, exit_status, reported, runs,
                         io_faults, executed, completed, resume, loaded,
                 last_save, dry_run, answer>>

\* partition::run: the answer to "Launch cfdisk on <disk>?"
confirm_cfdisk ==
  /\ pc = "confirm_cfdisk"
  /\ \E ans \in ConfirmAnswers :
       RequiredConfirm(ans, "run_interactive", "cfdisk", "cfdisk")

\* cfdisk advancing the counter without recording the disk
cfdisk_forget_disk ==
  /\ pc = "cfdisk"
  /\ Ret
  /\ IF cmd.result # Ok THEN Fail(cmd.result)
     ELSE /\ Complete(2, [sess EXCEPT !.last_step = 2])
          /\ UNCHANGED <<loc, executed>>

\* partition::run returns; run() records the disk
cfdisk ==
  /\ pc = "cfdisk"
  /\ Ret
  /\ IF cmd.result # Ok THEN Fail(cmd.result)
     ELSE /\ Complete(2, [sess EXCEPT !.disk = Some(loc.disk),
                                      !.last_step = 2])
          /\ UNCHANGED <<loc, executed>>

\* frame of an action that only calls a command or moves on
CallFrame ==
  UNCHANGED <<sess, file, loc, exit_status, reported, runs, io_faults,
              executed, completed, resume, loaded,
                 last_save, dry_run, answer>>

(***************************************************************************)
(* Step 3: steps::format::build_config and format::run.  run() names the   *)
(* function that asks for the partition roles build_config; format.rs      *)
(* defines it as ask_partitions, which is what is modelled here.           *)
(***************************************************************************)
step3 ==
  /\ pc = "step3"
  /\ IF Gated(sess, 3)
     THEN /\ Enter(3)
          /\ pc' = "list_partitions"
          /\ cmd' = IF is_dry_run THEN NoCmd
                    ELSE StartCmd("run_capture", "lsblk")
          /\ UNCHANGED <<sess, file, loc, exit_status, reported, runs,
                         io_faults, completed, resume, loaded,
                 last_save, dry_run, answer>>
     ELSE /\ pc' = "step4"
          /\ loc' = [loc EXCEPT !.config = to_config(sess)]
          /\ UNCHANGED <<sess, file, cmd, exit_status, reported, runs,
                         io_faults, executed, completed, resume, loaded,
                 last_save, dry_run, answer>>

\* lsblk::list_partitions, as list_disks
list_partitions ==
  /\ pc = "list_partitions"
  /\ is_dry_run \/ Ret
  /\ \E listed \in Listings :
       loc' = [loc EXCEPT !.listed = listed]
  /\ pc' = "select_partitions"
  /\ cmd' = NoCmd
  /\ UNCHANGED <<sess, file, exit_status, reported, runs, io_faults,
                 executed, completed, resume, loaded,
                 last_save, dry_run, answer>>

\* ask_partitions: the three role selections (EFI, swap, root)
select_partitions ==
  /\ pc = "select_partitions"
  /\ \/ Fail(Prompt)
     \/ \E e \in EfiChoices(loc.disk), w \in SwapChoices(loc.disk),
           r \in RootChoices(loc.disk) :
          /\ pc' = "confirm_format"
          /\ loc' = [loc EXCEPT !.listed = FALSE,
                                !.config = [efi_partition |-> e,
                                            swap_partition |-> w,
                                            root_partition |-> r]]
          /\ UNCHANGED <<sess, file, cmd, exit_status, reported, runs,
                         io_faults, executed, completed, resume, loaded,
                 last_save, dry_run, answer>>

\* ask_partitions: the answer to "Format these partitions?"; on yes
\* format::run starts with mkfs.fat
confirm_format ==
  /\ pc = "confirm_format"
  /\ \E ans \in ConfirmAnswers :
       RequiredConfirm(ans, "run_with_spinner", "mkfs.fat", "mkfs_fat")

mkfs_fat ==
  /\ pc = "mkfs_fat"
  /\ Ret
  /\ IF cmd.result # Ok THEN Fail(cmd.result)
     ELSE /\ IF loc.config.swap_partition # None
             THEN Call("run_with_spinner", "mkswap", "mkswap")
             ELSE Call("run_with_spinner", "mkfs.ext4", "mkfs_ext4")
          /\ CallFrame

\* mkswap dropping the error of the command instead of returning it
mkswap_ignore_error ==
  /\ pc = "mkswap"
  /\ Ret
  /\ Call("run_with_spinner", "mkfs.ext4", "mkfs_ext4")
  /\ CallFrame

mkswap ==
  /\ pc = "mkswap"
  /\ Ret
  /\ IF cmd.result # Ok THEN Fail(cmd.result)
     ELSE /\ Call("run_with_spinner", "mkfs.ext4", "mkfs_ext4")
          /\ CallFrame

\* format::run returns; run() records the partitions
mkfs_ext4 ==
  /\ pc = "mkfs_ext4"
  /\ Ret
  /\ IF cmd.result # Ok THEN Fail(cmd.result)
     ELSE /\ Complete(3, [sess EXCEPT
                            !.efi_partition = Some(loc.config.efi_partition),
                            !.swap_partition = loc.config.swap_partition,
                            !.root_partition = Some(loc.config.root_partition),
                            !.last_step = 3])
          /\ UNCHANGED <<loc, executed>>

(***************************************************************************)
(* Step 4: steps::mount::run, called whatever the counter is.              *)
(***************************************************************************)
step4 ==
  /\ pc = "step4"
  /\ Enter(4)
  /\ Call("run_with_spinner", "mount", "mount_root")
  /\ UNCHANGED <<sess, file, loc, exit_status, reported, runs, io_faults,
                 completed, resume, loaded,
                 last_save, dry_run, answer>>

\* run_best_effort handing the outcome of the spawn to its caller
run_best_effort_fallible(program, r) ==
  IF r.spawn # "Ran" THEN not_found_or_io(program, r)
  ELSE IF ~success(r) THEN CommandFailed(program, code_or_minus_one(r))
  ELSE Ok

\* cmd::run_best_effort: the result of the spawn is dropped
run_best_effort(program, r) == Ok

\* the first mount has returned; with a swap partition mount::run goes on
\* to run_best_effort("swapoff"), without one to mkdir
mount_root ==
  /\ pc = "mount_root"
  /\ Ret
  /\ IF cmd.result # Ok THEN Fail(cmd.result)
     ELSE /\ IF loc.config.swap_partition # None
             THEN pc' = "swapoff" /\ cmd' = NoCmd
             ELSE Call("run_with_spinner", "mkdir", "mkdir")
          /\ CallFrame

\* run_best_effort("swapoff"): one spawn, whatever its outcome
swapoff ==
  /\ pc = "swapoff"
  /\ \E r \in SpawnResults :
       loc' = [loc EXCEPT !.best_effort =
                 [called |-> TRUE, spawned |-> r,
                  result |-> run_best_effort("swapoff", r)]]
  /\ pc' = "swapoff_ret"
  /\ UNCHANGED <<sess, file, cmd, exit_status, reported, runs, io_faults,
                 executed, completed, resume, loaded, last_save, dry_run,
                 answer>>

\* run_best_effort has returned: mount::run looks at nothing and calls
\* swapon
swapoff_ret ==
  /\ pc = "swapoff_ret"
  /\ Call("run_with_spinner", "swapon", "swapon")
  /\ loc' = [loc EXCEPT !.best_effort = NoBestEffort]
  /\ UNCHANGED <<sess, file, exit_status, reported, runs, io_faults,
                 executed, completed, resume, loaded, last_save, dry_run,
                 answer>>

swapon ==
  /\ pc = "swapon"
  /\ Ret
  /\ IF cmd.result # Ok THEN Fail(cmd.result)
     ELSE /\ Call("run_with_spinner", "mkdir", "mkdir")
          /\ CallFrame

mkdir ==
  /\ pc = "mkdir"
  /\ Ret
  /\ IF cmd.result # Ok THEN Fail(cmd.result)
     ELSE /\ Call("run_with_spinner", "mount", "mount_efi")
          /\ CallFrame

\* mount_efi advancing and saving the counter whatever it was
mount_efi_ungated ==
  /\ pc = "mount_efi"
  /\ Ret
  /\ IF cmd.result # Ok THEN Fail(cmd.result)
     ELSE /\ Complete(4, [sess EXCEPT !.last_step = 4])
          /\ UNCHANGED <<loc, executed>>

\* mount::run returns; the counter moves to 4 only if it was below 4
mount_efi ==
  /\ pc = "mount_efi"
  /\ Ret
  /\ IF cmd.result # Ok THEN Fail(cmd.result)
     ELSE IF Gated(sess, 4)
     THEN /\ Complete(4, [sess EXCEPT !.last_step = 4])
          /\ UNCHANGED <<loc, executed>>
     ELSE /\ pc' = "step5"
          /\ cmd' = NoCmd
          /\ completed' = completed \cup {4}
          /\ UNCHANGED <<sess, file, loc, exit_status, reported, runs,
                         io_faults, executed, resume, loaded,
                 last_save, dry_run, answer>>

(***************************************************************************)
(* Step 5: steps::ntp::run.                                                *)
(***************************************************************************)
\* step5 advancing and writing the counter before the action has run
step5_eager ==
  /\ pc = "step5"
  /\ IF Gated(sess, 5)
     THEN /\ Enter(5)
          /\ pc' = "confirm_ntp"
          /\ sess' = [sess EXCEPT !.last_step = 5]
          /\ file' = FileWith(Serialize(sess'))
          /\ UNCHANGED <<cmd, loc, exit_status, reported, runs, io_faults,
                         completed, resume, loaded, last_save, dry_run, answer>>
     ELSE Goto("step6")

step5 ==
  /\ pc = "step5"
  /\ IF Gated(sess, 5)
     THEN /\ Enter(5)
          /\ pc' = "confirm_ntp"
          /\ UNCHANGED <<sess, file, cmd, loc, exit_status, reported, runs,
                         io_faults, completed, resume, loaded,
                 last_save, dry_run, answer>>
     ELSE Goto("step6")

\* ntp::run: the answer to "Sync system time via NTP?"; no is a success
confirm_ntp ==
  /\ pc = "confirm_ntp"
  /\ \E ans \in ConfirmAnswers :
       CASE ans = "err" -> Fail(Prompt)
         [] ans = "no" ->
              /\ Complete(5, [sess EXCEPT !.last_step = 5])
              /\ UNCHANGED <<loc, executed>>
         [] ans = "yes" ->
              /\ Call("run_with_spinner", "ntpd", "ntpd")
              /\ CallFrame

ntpd ==
  /\ pc = "ntpd"
  /\ Ret
  /\ IF cmd.result # Ok THEN Fail(cmd.result)
     ELSE /\ Complete(5, [sess EXCEPT !.last_step = 5])
          /\ UNCHANGED <<loc, executed>>

(***************************************************************************)
(* Step 6: steps::packages::install_base.                                  *)
(***************************************************************************)
step6 ==
  /\ pc = "step6"
  /\ IF Gated(sess, 6)
     THEN /\ Enter(6)
          /\ pc' = "confirm_base"
          /\ UNCHANGED <<sess, file, cmd, loc, exit_status, reported, runs,
                         io_faults, completed, resume, loaded,
                 last_save, dry_run, answer>>
     ELSE Goto("step7")

\* install_base: the answer to "Proceed with base installation?"
confirm_base ==
  /\ pc = "confirm_base"
  /\ \E ans \in ConfirmAnswers :
       RequiredConfirm(ans, "run_interactive", "basestrap", "basestrap_base")

basestrap_base ==
  /\ pc = "basestrap_base"
  /\ Ret
  /\ IF cmd.result # Ok THEN Fail(cmd.result)
     ELSE /\ Complete(6, [sess EXCEPT !.last_step = 6])
          /\ UNCHANGED <<loc, executed>>

(***************************************************************************)
(* Step 7: steps::packages::ask_kernel and install_kernel.                 *)
(***************************************************************************)
step7 ==
  /\ pc = "step7"
  /\ IF Gated(sess, 7)
     THEN /\ Enter(7)
          /\ pc' = "ask_kernel"
          /\ UNCHANGED <<sess, file, cmd, loc, exit_status, reported, runs,
                         io_faults, completed, resume, loaded,
                 last_save, dry_run, answer>>
     ELSE Goto("step8")

\* ask_kernel: the Select; then install_kernel calls basestrap
ask_kernel ==
  /\ pc = "ask_kernel"
  /\ \/ Fail(Prompt)
     \/ \E k \in KernelVariant :
          /\ Call("run_interactive", "basestrap", "basestrap_kernel")
          /\ loc' = [loc EXCEPT !.kernel = k]
          /\ UNCHANGED <<sess, file, exit_status, reported, runs, io_faults,
                         executed, completed, resume, loaded,
                 last_save, dry_run, answer>>

\* install_kernel returns; run() records the kernel
basestrap_kernel ==
  /\ pc = "basestrap_kernel"
  /\ Ret
  /\ IF cmd.result # Ok THEN Fail(cmd.result)
     ELSE /\ Complete(7, [sess EXCEPT !.kernel = Some(loc.kernel),
                                      !.last_step = 7])
          /\ UNCHANGED <<loc, executed>>

(***************************************************************************)
(* Step 8: steps::packages::install_desktop, an opaque fallible step.      *)
(***************************************************************************)
\* what install_desktop may return
InstallDesktopResults == {Ok, Cancelled, Io}

step8 ==
  /\ pc = "step8"
  /\ IF Gated(sess, 8)
     THEN /\ Enter(8)
          /\ pc' = "install_desktop"
          /\ UNCHANGED <<sess, file, cmd, loc, exit_status, reported, runs,
                         io_faults, completed, resume, loaded,
                 last_save, dry_run, answer>>
     ELSE Goto("step9")

install_desktop ==
  /\ pc = "install_desktop"
  /\ \E r \in InstallDesktopResults :
       IF r # Ok THEN Fail(r)
       ELSE /\ Complete(8, [sess EXCEPT !.last_step = 8])
            /\ UNCHANGED <<loc, executed>>

(***************************************************************************)
(* Step 9: steps::fstab::generate, steps::chroot::run, Session::clear.     *)
(***************************************************************************)
\* fstab::generate: create_dir_all, then the indicator is started and
\* fstabgen is appended to /mnt/etc/fstab
step9 ==
  /\ pc = "step9"
  /\ \E dir_ok \in BOOLEAN :
       IF ~dir_ok
       THEN /\ Enter(9)
            /\ pc' = "exited"
            /\ exit_status' = 1
            /\ reported' = Io
            /\ cmd' = NoCmd
            /\ loc' = NoLoc
            /\ UNCHANGED <<sess, file, runs, io_faults, completed, resume,
                           loaded,
                 last_save, dry_run, answer>>
       ELSE /\ Enter(9)
            /\ Call("run_append_to_file", "fstabgen", "fstabgen")
            /\ loc' = [loc EXCEPT !.pb = "ticking"]
            /\ UNCHANGED <<sess, file, exit_status, reported, runs,
                           io_faults, completed, resume, loaded,
                 last_save, dry_run, answer>>

\* Finish returning Ok without Session::clear
Finish_without_clear ==
  /\ pc' = "exited"
  /\ exit_status' = 0
  /\ reported' = Ok
  /\ file' = file
  /\ completed' = {}
  /\ cmd' = NoCmd
  /\ loc' = NoLoc
  /\ UNCHANGED <<sess, runs, io_faults, executed, resume, loaded,
                 last_save, dry_run, answer>>

\* run() returns Ok after Session::clear: the process exits with status 0
Finish ==
  /\ pc' = "exited"
  /\ exit_status' = 0
  /\ reported' = Ok
  /\ file' = clear(file)
  /\ completed' = {}
  /\ cmd' = NoCmd
  /\ loc' = NoLoc
  /\ UNCHANGED <<sess, runs, io_faults, executed, resume, loaded,
                 last_save, dry_run, answer>>

\* fstabgen where run() checkpoints step 9 as it does the steps before it
fstabgen_checkpointed ==
  /\ pc = "fstabgen"
  /\ Ret
  /\ IF cmd.result # Ok THEN Fail(cmd.result)
     ELSE /\ pc' = "confirm_chroot"
          /\ cmd' = NoCmd
          /\ loc' = [loc EXCEPT !.pb = "none"]
          /\ sess' = [sess EXCEPT !.last_step = 9]
          /\ file' = FileWith(Serialize(sess'))
          /\ UNCHANGED <<exit_status, reported, runs, io_faults,
                         executed, completed, resume, loaded, last_save,
                         dry_run, answer>>

\* fstab::generate looks at the result of run_append_to_file, stops the
\* indicator on either branch and returns; chroot::run asks its question
fstabgen ==
  /\ pc = "fstabgen"
  /\ Ret
  /\ IF cmd.result # Ok THEN Fail(cmd.result)
     ELSE /\ pc' = "confirm_chroot"
          /\ cmd' = NoCmd
          /\ loc' = [loc EXCEPT !.pb = "none"]
          /\ UNCHANGED <<sess, file, exit_status, reported, runs, io_faults,
                         executed, completed, resume, loaded, last_save,
                         dry_run, answer>>

\* chroot::run: the answer to "Enter the new system with artix-chroot now?"
confirm_chroot ==
  /\ pc = "confirm_chroot"
  /\ \E ans \in ConfirmAnswers :
       CASE ans = "err" -> Fail(Prompt)
         [] ans = "no" -> Finish
         [] ans = "yes" ->
              /\ Call("run_interactive", "artix-chroot", "artix_chroot")
              /\ CallFrame

artix_chroot ==
  /\ pc = "artix_chroot"
  /\ Ret
  /\ IF cmd.result # Ok THEN Fail(cmd.result) ELSE Finish

(***************************************************************************)
(* The specification.                                                      *)
(***************************************************************************)
Next ==
  \/ Launch \/ Interrupt
  \/ check_root \/ check_resume \/ resume_confirm
  \/ CmdAttempt \/ OfferInstallConfirm \/ OfferInstallPacman
  \/ OfferInstallWhich \/ CmdRetry
  \/ save_write
  \/ step1
  \/ step2 \/ list_disks \/ select_disk \/ confirm_cfdisk \/ cfdisk
  \/ step3 \/ list_partitions \/ select_partitions \/ confirm_format
  \/ mkfs_fat \/ mkswap \/ mkfs_ext4
  \/ step4 \/ mount_root \/ swapoff \/ swapoff_ret \/ swapon \/ mkdir
  \/ mount_efi
  \/ step5 \/ confirm_ntp \/ ntpd
  \/ step6 \/ confirm_base \/ basestrap_base
  \/ step7 \/ ask_kernel \/ basestrap_kernel
  \/ step8 \/ install_desktop
  \/ step9 \/ fstabgen \/ confirm_chroot \/ artix_chroot

Spec == Init /\ [][Next]_vars

\* a step of the invocation in progress: a spawn and wait, or a prompt
CmdStep ==
  \/ CmdAttempt \/ OfferInstallConfirm \/ OfferInstallPacman
  \/ OfferInstallWhich \/ CmdRetry

\* the installer launched with the dry-run switch
DrySpec == Start(TRUE) /\ [][Next]_vars

\* Spec where every external process and every prompt of an invocation
\* ends: the runner is sequential code that goes on once wait() or
\* interact() returns
LiveSpec == Spec /\ WF_vars(CmdStep)

(***************************************************************************)
(* session.rs taken alone: save and load applied to records and to files   *)
(* that no run of the installer need have produced (a record is a plain    *)
(* struct with public fields, and the file lies in /tmp), followed by the  *)
(* start of a run on such a file.                                          *)
(***************************************************************************)
\* a value with a leading blank, one ending in "\r", one holding "="
PaddedPath == <<" ", "/", "a">>
CrPath == <<"/", "b", "\r">>
EqPath == <<"/", "c", "=", "d">>

\* the records handed to save: every field takes a value of each kind
SessionInputs ==
  [last_step : {0, 1, 3, 255},
   disk : {None, Some(SDA), Some(PaddedPath)},
   efi_partition : {None, Some(Append(SDA, "1"))},
   swap_partition : {None, Some(CrPath)},
   root_partition : {None, Some(EqPath)},
   kernel : {None} \cup {Some(k) : k \in KernelVariant}]

\* kernel tokens no variant is written as: another word, a known token in
\* capitals, a known token with a suffix, the empty token
UnknownTokens ==
  {<<"f", "o", "o">>, <<"L", "T", "S">>, <<"z", "e", "n", "2">>, <<>>}

\* the values of step lines handed to load: counters beyond the number of
\* steps, the largest u8, values above it, no value, digits followed or
\* separated by another character, a sign, leading zeros
StepTexts ==
  {<<"9">>, <<"1", "0">>, <<"4", "2">>, <<"2", "5", "5">>,
   <<"3", "0", "0">>, <<"9", "9", "9">>, <<"1", "0", "0", "0">>,
   <<>>, <<"3", "x">>, <<"1", ".", "5">>, <<"-", "0">>, <<"-", "3">>,
   <<"+">>, <<"+", "7">>, <<"0", "0", "7">>}

\* the files handed to load: absent, empty, with counter 0, with facts and
\* no counter, with a counter that does not parse as u8, with blanks around
\* key and value, with a key this version does not know, with a kernel
\* token no variant is written as
FileInputs ==
  {FileWith(KvLine(KeyStep, <<"7">>) \o KvLine(KeyKernel, tok)) :
     tok \in UnknownTokens}
  \cup
  \* a step line of each value, and two step lines, the later one counting
  {FileWith(KvLine(KeyStep, v) \o KvLine(KeyDisk, SDA)) : v \in StepTexts}
  \cup
  {FileWith(KvLine(KeyStep, <<"3">>) \o KvLine(KeyStep, <<"x">>)),
   FileWith(KvLine(KeyStep, <<"x">>) \o KvLine(KeyStep, <<"3">>))}
  \cup
  \* lines without "=", an empty line, a line with an empty key, keys this
  \* version does not know, among lines it does
  {FileWith(KvLine(KeyStep, <<"2">>) \o <<"d", "i", "s", "k", NL>>
            \o KvLine(KeyDisk, SDA) \o <<NL>>),
   FileWith(KvLine(<<"n", "e", "w">>, SDB) \o KvLine(KeyStep, <<"4">>)
            \o KvLine(<<>>, <<"9">>) \o KvLine(KeyDisk, SDA)
            \o KvLine(<<"D", "i", "s", "k">>, SDB)),
   FileWith(KvLine(<<"S", "t", "e", "p">>, <<"3">>) \o <<"s", "t", "e", "p", " ", "3", NL>>)}
  \cup
  {NoFile,
   FileWith(<<>>),
   FileWith(KvLine(KeyStep, <<"0">>)),
   FileWith(KvLine(KeyDisk, SDA)),
   FileWith(KvLine(KeyStep, <<"0">>) \o KvLine(KeyDisk, SDA)),
   FileWith(KvLine(KeyStep, <<"2">>) \o KvLine(KeyDisk, SDA)),
   FileWith(KvLine(KeyStep, <<"x">>)),
   FileWith(KvLine(KeyStep, <<"2", "5", "6">>)),
   FileWith(KvLine(KeyStep, <<"-", "1">>)),
   FileWith(KvLine(<<"s", "t", "e", "p", " ">>, <<" ", "3", " ">>)),
   FileWith(KvLine(KeyStep, <<"5">>) \o KvLine(<<"n", "e", "w">>, <<"1">>))}

SessionInit ==
  /\ pc = "session"
  /\ \/ sess \in SessionInputs /\ file = NoFile
     \/ sess = SessionDefault /\ file \in FileInputs
  /\ cmd = NoCmd
  /\ loc = NoLoc
  /\ exit_status = 0
  /\ reported = Ok
  /\ runs = 1
  /\ io_faults = 0
  /\ executed = <<>>
  /\ completed = {}
  /\ resume = "none"
  /\ loaded = 0
  /\ last_save = "none"
  /\ dry_run = FALSE
  /\ answer = "none"

\* Session::save with both file operations succeeding
session_save ==
  /\ pc = "session"
  /\ file = NoFile
  /\ file' = FileWith(Serialize(sess))
  /\ last_save' = "ok"
  /\ pc' = "session_saved"
  /\ UNCHANGED <<sess, cmd, loc, exit_status, reported, runs, io_faults,
                 executed, completed, resume, loaded, dry_run, answer>>

\* Session::load of what save wrote
session_load ==
  /\ pc = "session_saved"
  /\ loc' = [loc EXCEPT !.saved = load(file)]
  /\ pc' = "session_loaded"
  /\ UNCHANGED <<sess, file, cmd, exit_status, reported, runs, io_faults,
                 executed, completed, resume, loaded, last_save, dry_run, answer>>

\* a run reaches check_resume with the file as it is
session_start ==
  /\ pc = "session"
  /\ sess = SessionDefault
  /\ Goto("check_resume")

SessionNext ==
  \/ session_save \/ session_load \/ session_start
  \/ check_resume \/ resume_confirm

SessionSpec == SessionInit /\ [][SessionNext]_vars

(***************************************************************************)
(* cmd.rs taken alone: each wrapped operation invoked on each program,     *)
(* those of the table of package_for and some outside it.                  *)
(***************************************************************************)
\* the programs the table of package_for names
TablePrograms ==
  {"mkfs.fat", "mkfs.vfat", "fsck.fat", "fatlabel",
   "mkfs.ext4", "mkfs.ext3", "mkfs.ext2", "e2fsck", "resize2fs", "tune2fs",
   "mkfs.btrfs", "btrfs", "mkfs.xfs", "xfs_repair",
   "mkswap", "swapon", "swapoff", "mount", "umount", "cfdisk", "fdisk",
   "lsblk", "blkid", "findmnt",
   "basestrap", "fstabgen", "artix-chroot",
   "rc-service", "rc-update", "openrc",
   "ntpd", "ntpdate", "ntpq"}

\* programs the table does not name: one the installer runs, the two
\* offer_install runs, a package name, and the empty name
OtherPrograms == {"mkdir", "pacman", "which", "dosfstools", ""}

Programs == TablePrograms \cup OtherPrograms

RunnerInit ==
  /\ pc = "runner"
  /\ \E op \in {"run_interactive", "run_with_spinner", "run_capture",
                 "run_append_to_file"}, p \in Programs :
       cmd = StartCmd(op, p)
  /\ sess = SessionDefault
  /\ file = NoFile
  /\ loc = NoLoc
  /\ exit_status = 0
  /\ reported = Ok
  /\ runs = 1
  /\ io_faults = 0
  /\ executed = <<>>
  /\ completed = {}
  /\ resume = "none"
  /\ loaded = 0
  /\ last_save = "none"
  /\ dry_run = FALSE
  /\ answer = "none"

RunnerSpec == RunnerInit /\ [][CmdStep]_vars

(***************************************************************************)
(* Helpers of the properties.                                              *)
(***************************************************************************)
\* the progress counter a load of the file would yield, 0 for no checkpoint
FileStep ==
  LET onfile == load(file)
  IN IF onfile = None THEN 0 ELSE Unwrap(onfile).last_step

\* the events of the invocation in progress
L == cmd.log

\* the first attempt could not locate the executable
FirstNotFound == Len(L) >= 1 /\ L[1].env.spawned.spawn = "NotFound"

\* the first attempt failed otherwise: the target file could not be opened,
\* the spawn failed with another error, or the process did not succeed
FirstOtherFailure ==
  /\ Len(L) >= 1
  /\ \/ ~L[1].env.open_ok
     \/ L[1].env.spawned.spawn = "OtherErr"
     \/ (L[1].env.spawned.spawn = "Ran" /\ ~success(L[1].env.spawned))

\* the operator answered the install prompt
Answered(a) == Len(L) >= 2 /\ L[2].ev = "prompt" /\ L[2].ans = a

\* pacman ran, and how it ended
PacmanSucceeded ==
  Len(L) >= 3 /\ L[3].ev = "pacman" /\ success(L[3].env.spawned)
PacmanFailed ==
  /\ Len(L) >= 3
  /\ L[3].ev = "pacman"
  /\ L[3].env.spawned.spawn = "Ran"
  /\ ~success(L[3].env.spawned)

\* the probe ran, and what it found
ProbeFound == Len(L) >= 4 /\ L[4].ev = "probe" /\ success(L[4].env.spawned)
ProbeMissing ==
  Len(L) >= 4 /\ L[4].ev = "probe" /\ ~success(L[4].env.spawned)

\* number of attempts of the original command in a log
Attempts(log) == Cardinality({i \in 1..Len(log) : log[i].ev = "attempt"})

\* number of events of one kind in a log
Count(log, ev) == Cardinality({i \in 1..Len(log) : log[i].ev = ev})

\* the counter the lines of a file give, 0 for an absent file
CounterOf(f) ==
  IF ~f.exists THEN 0
  ELSE ApplyLines(SessionDefault, Lines(f.content)).last_step

\* the facts the steps up to the counter of a record have produced
FactsComplete(s) ==
  /\ s.last_step >= 1
  /\ s.last_step >= 2 => s.disk # None
  /\ s.last_step >= 3 => (s.efi_partition # None /\ s.root_partition # None)
  /\ s.last_step >= 7 => s.kernel # None

\* the counter the run started from: the loaded one when the operator
\* accepted the resume, 0 otherwise
StartCounter == IF resume = "accepted" THEN loaded ELSE 0

\* where a run is while mount::run executes
MountLabels ==
  {"mount_root", "swapoff", "swapoff_ret", "swapon", "mkdir", "mount_efi"}

\* where a run is once step 4 is behind it
PastMountLabels ==
  {"step5", "confirm_ntp", "ntpd", "step6", "confirm_base", "basestrap_base",
   "step7", "ask_kernel", "basestrap_kernel", "step8", "install_desktop",
   "step9", "fstabgen", "confirm_chroot", "artix_chroot"}

\* the outcome the classification rule gives to the environment's answer e
\* to an attempt of program p: a file that cannot be opened and a spawn
\* error other than "not found" are I/O failures
Outcome(p, e) ==
  IF ~e.open_ok THEN Io
  ELSE IF e.spawned.spawn = "NotFound" THEN CommandNotFound(p)
  ELSE IF e.spawned.spawn = "OtherErr" THEN Io
  ELSE IF e.spawned.has_code /\ e.spawned.code = 0 THEN Ok
  ELSE IF e.spawned.has_code THEN CommandFailed(p, e.spawned.code)
  ELSE CommandFailed(p, -1)

\* the step whose action was called last in this run, 0 when none was
LastExecuted == IF executed = <<>> THEN 0 ELSE executed[Len(executed)]

\* the events of a full recovery, in order
RecoveryScript == <<"attempt", "prompt", "pacman", "probe", "attempt">>

\* what the controller does after the responses logged so far, whatever the
\* operation: the next thing it asks of the environment, or "ret"
NextOf(log) ==
  LET n == Len(log)
  IN CASE n = 0 -> "attempt"
       [] n = 1 -> IF log[1].env.spawned.spawn = "NotFound" THEN "confirm"
                   ELSE "ret"
       [] n = 2 -> IF log[2].ans = "yes" THEN "pacman" ELSE "ret"
       [] n = 3 -> IF success(log[3].env.spawned) THEN "which" ELSE "ret"
       [] n = 4 -> IF success(log[4].env.spawned) THEN "retry" ELSE "ret"
       [] OTHER -> "ret"

\* the result the controller returns for program p after the responses
\* logged, whatever the operation
ResultOf(p, log) ==
  LET n == Len(log)
  IN CASE n = 1 -> Outcome(p, log[1].env)
       [] n = 2 -> IF log[2].ans = "err" THEN Prompt ELSE CommandNotFound(p)
       [] n = 3 -> Outcome("pacman", log[3].env)
       [] n = 4 -> CommandNotFound(p)
       [] OTHER -> Outcome(p, log[5].env)

\* the four wrapped operations of the command runner
WrappedOps ==
  {"run_interactive", "run_with_spinner", "run_capture", "run_append_to_file"}

\* the keys Session::load knows
KnownKeys == {KeyStep, KeyDisk, KeyEfi, KeySwap, KeyRoot, KeyKernel}

\* a line Session::load acts on: it has the shape key=value and its key,
\* blanks around it aside, is known
Understood(line) ==
  /\ IndexOf(line, "=") > 0
  /\ Trim(SubSeq(line, 1, IndexOf(line, "=") - 1)) \in KnownKeys

RECURSIVE KeepUnderstood(_)
\* the text made of the understood lines among ls, each ended by a newline
KeepUnderstood(ls) ==
  IF ls = <<>> THEN <<>>
  ELSE (IF Understood(Head(ls)) THEN Head(ls) \o <<NL>> ELSE <<>>)
       \o KeepUnderstood(Tail(ls))

\* file f with the lines load does not understand removed
Cleaned(f) ==
  IF ~f.exists THEN f ELSE FileWith(KeepUnderstood(Lines(f.content)))

\* file f has a line load does not understand
HasIgnoredLine(f) ==
  f.exists /\ \E i \in 1..Len(Lines(f.content)) : ~Understood(Lines(f.content)[i])

\* the record of run() exists: check_resume has returned it
HasRecord == Running /\ pc \notin {"check_root", "check_resume", "resume_confirm"}

\* the facts of a record
FactNames ==
  {"disk", "efi_partition", "swap_partition", "root_partition", "kernel"}

\* the facts step i itself produces
Produces(i) ==
  CASE i = 2 -> {"disk"}
    [] i = 3 -> {"efi_partition", "swap_partition", "root_partition"}
    [] i = 7 -> {"kernel"}
    [] OTHER -> {}

\* the facts the steps up to counter k have produced; swap is optional
FactsUpTo(k) ==
  (IF k >= 2 THEN {"disk"} ELSE {})
  \cup (IF k >= 3 THEN {"efi_partition", "swap_partition", "root_partition"}
        ELSE {})
  \cup (IF k >= 7 THEN {"kernel"} ELSE {})

\* an invocation has been entered and has not returned
InProgress == cmd.phase \in {"attempt", "confirm", "pacman", "which", "retry"}

(***************************************************************************)
(* C1. Skip rule, as the claim states it: after an accepted resume from a  *)
(* checkpoint with counter k, no step of 1..k is executed and step k+1 is  *)
(* the first step executed.  The mount step refutes it for k >= 4.         *)
(***************************************************************************)
C1_SkipRule ==
  resume = "accepted" =>
    /\ \A j \in 1..Len(executed) : executed[j] > loaded
    /\ executed # <<>> => executed[1] = loaded + 1

(***************************************************************************)
(* C1, amended.  After an accepted resume from counter k, no step of 1..k  *)
(* other than the mount step 4 is executed; the first step executed is     *)
(* k+1 when k < 4 and the mount step 4 when k >= 4, in which case the step *)
(* executed after the mount is k+1.                                        *)
(***************************************************************************)
C1_SkipRuleExceptMount ==
  resume = "accepted" =>
    /\ \A j \in 1..Len(executed) : executed[j] > loaded \/ executed[j] = 4
    /\ executed # <<>> => executed[1] = (IF loaded < 4 THEN loaded + 1 ELSE 4)
    /\ (loaded >= 4 /\ Len(executed) >= 2) => executed[2] = loaded + 1

C1_Witness == resume = "accepted" /\ loaded = 5 /\ executed = <<4, 6>>

(***************************************************************************)
(* C2. The checkpoint reflects only fully completed steps: whenever the    *)
(* file holds counter k, the action of every step 1..k has returned        *)
(* success since the last clear, and the same holds of the counter of the  *)
(* running process.                                                        *)
(***************************************************************************)
C2_CheckpointOnlyCompleted ==
  /\ \A i \in 1..FileStep : i \in completed
  /\ Running => \A i \in 1..sess.last_step : i \in completed

C2_Witness ==
  /\ FileStep = 5
  /\ sess.last_step = 5
  /\ pc = "basestrap_base"
  /\ 6 \notin completed

(***************************************************************************)
(* C3. A step whose action returns an error ends the run at once: an error *)
(* returned by a command of a step is the next thing the process reports,  *)
(* with exit status 1; the failing transition changes neither the record   *)
(* nor the file, the counter stays below the failing step (or, for the     *)
(* mount step of a resumed run, where it was loaded), and an exited        *)
(* process takes no further step of that run.                              *)
(***************************************************************************)
C3_StepErrorAbortsRun ==
  [][/\ (/\ Ret
         /\ cmd.result # Ok
         /\ pc \notin {"list_disks", "list_partitions"}
         /\ pc' # "off")
        => (pc' = "exited" /\ exit_status' = 1 /\ reported' = cmd.result)
     /\ (Running /\ pc' = "exited" /\ exit_status' = 1)
        => /\ reported' # Ok
           /\ sess' = sess
           /\ file' = file
           /\ completed' = completed
           /\ last_save' = last_save
           /\ executed' # <<>> =>
                LET i == executed'[Len(executed')]
                IN /\ \A j \in 1..Len(executed') : executed'[j] <= i
                   /\ \/ sess'.last_step < i
                      \/ (i = 4 /\ sess'.last_step = loaded')
     /\ pc = "exited" => (pc' = "check_root" /\ executed' = <<>>)
    ]_vars

C3_Witness ==
  /\ pc = "exited"
  /\ exit_status = 1
  /\ executed = <<1, 2, 3>>
  /\ reported = CommandFailed("mkswap", 1)
  /\ sess.last_step = 2
  /\ FileStep = 2

C5_DeclineStartsFresh ==
  resume = "declined" =>
    /\ loaded > 0
    /\ executed = <<>> =>
         /\ pc = "step1"
         /\ file = NoFile
         /\ load(file) = None
         /\ sess = SessionDefault
    /\ executed # <<>> => executed[1] = 1
    /\ pc = "exited" => executed # <<>>

C5_Witness ==
  /\ resume = "declined"
  /\ loaded = 3
  /\ executed = <<1, 2>>
  /\ FileStep = 1

(***************************************************************************)
(* C6. Self-healing retry: after NotFound, an accepted prompt, a           *)
(* successful pacman and a successful probe, the original command is       *)
(* attempted a second time with the same program, which makes exactly two  *)
(* attempts; the result of the second attempt, whatever it is, is the      *)
(* result of the operation, and the invocation then ends without another   *)
(* prompt, pacman, probe or attempt.                                       *)
(***************************************************************************)
C6_RetryExactlyOnce ==
  [][(FirstNotFound /\ Answered("yes") /\ PacmanSucceeded /\ ProbeFound)
     => /\ cmd.phase \in {"retry", "ret"}
        /\ cmd.phase = "retry" =>
             /\ Len(L) = 4
             /\ \/ cmd' = cmd
                \/ cmd' = NoCmd
                \/ /\ cmd'.phase = "ret"
                   /\ cmd'.op = cmd.op
                   /\ cmd'.program = cmd.program
                   /\ Len(cmd'.log) = 5
                   /\ SubSeq(cmd'.log, 1, 4) = L
                   /\ cmd'.log[5].ev = "attempt"
                   /\ cmd'.log[5].what = L[1].what
                   /\ cmd'.result = attempt(cmd.op, cmd.program,
                                            cmd'.log[5].env)
        /\ cmd.phase = "ret" =>
             /\ Len(L) = 5
             /\ Attempts(L) = 2
             /\ cmd' = cmd \/ cmd'.log = <<>>
    ]_vars

C6_Witness ==
  /\ cmd.phase = "ret"
  /\ FirstNotFound /\ Answered("yes") /\ PacmanSucceeded /\ ProbeFound
  /\ Attempts(L) = 2
  /\ cmd.result = CommandNotFound(cmd.program)

(***************************************************************************)
(* C7. NotFound, then the operator declines the install prompt: the        *)
(* operation returns CommandNotFound for the original program, and the     *)
(* prompt is the last event: no pacman, no probe, no retry.                *)
(***************************************************************************)
C7_DeclineIsNotFound ==
  (FirstNotFound /\ Answered("no")) =>
    /\ cmd.phase = "ret"
    /\ cmd.result = CommandNotFound(L[1].what)
    /\ cmd.program = L[1].what
    /\ Len(L) = 2

C7_Witness ==
  /\ FirstNotFound /\ Answered("no")
  /\ cmd.program = "cfdisk"
  /\ cmd.result = CommandNotFound("cfdisk")

(***************************************************************************)
(* C8. NotFound, the operator accepts, pacman runs and fails: the          *)
(* operation returns CommandFailed naming pacman with pacman's exit code   *)
(* (-1 when it has none), never CommandNotFound, and pacman is the last    *)
(* event: no probe, no retry.                                              *)
(***************************************************************************)
C8_PacmanFailureSurfaces ==
  (FirstNotFound /\ Answered("yes") /\ PacmanFailed) =>
    /\ cmd.phase = "ret"
    /\ cmd.result.kind = "CommandFailed"
    /\ cmd.result.program = "pacman"
    /\ cmd.result.code = (IF L[3].env.spawned.has_code
                          THEN L[3].env.spawned.code ELSE -1)
    /\ Len(L) = 3

C8_Witness ==
  /\ FirstNotFound /\ Answered("yes") /\ PacmanFailed
  /\ cmd.program = "mkfs.fat"
  /\ L[3].what = "dosfstools"
  /\ cmd.result = CommandFailed("pacman", 1)

(***************************************************************************)
(* C9. NotFound, the operator accepts, pacman succeeds, and the probe does *)
(* not find the binary: the operation returns CommandNotFound for the      *)
(* original program and the probe is the last event: no retry.             *)
(***************************************************************************)
C9_ProbeFailureIsNotFound ==
  (FirstNotFound /\ Answered("yes") /\ PacmanSucceeded /\ ProbeMissing) =>
    /\ cmd.phase = "ret"
    /\ cmd.result = CommandNotFound(L[1].what)
    /\ cmd.program = L[1].what
    /\ Len(L) = 4
    /\ Attempts(L) = 1

C9_Witness ==
  /\ FirstNotFound /\ Answered("yes") /\ PacmanSucceeded /\ ProbeMissing
  /\ L[4].env.spawned.spawn = "Ran"
  /\ cmd.program = "ntpd"
  /\ cmd.result = CommandNotFound("ntpd")

(***************************************************************************)
(* C10. Only NotFound is recovered from: a first attempt that ends in      *)
(* CommandFailed or in an I/O failure is the only event of the invocation  *)
(* and its error is the result; an invocation with more than one event     *)
(* began with NotFound.                                                    *)
(***************************************************************************)
C10_OnlyNotFoundRetried ==
  /\ FirstOtherFailure =>
       /\ cmd.phase = "ret"
       /\ Len(L) = 1
       /\ cmd.result =
            (IF L[1].env.open_ok /\ L[1].env.spawned.spawn = "Ran"
             THEN CommandFailed(cmd.program,
                                IF L[1].env.spawned.has_code
                                THEN L[1].env.spawned.code ELSE -1)
             ELSE Io)
  /\ Len(L) >= 2 => FirstNotFound

C10_Witness ==
  /\ FirstOtherFailure
  /\ cmd.op = "run_append_to_file"
  /\ ~L[1].env.open_ok
  /\ cmd.result = Io

(***************************************************************************)
(* C11. Recovery has depth one and ends.  At every moment of an invocation *)
(* the original command has been attempted at most twice, pacman has been  *)
(* invoked at most once, the probe has run at most once and the operator   *)
(* has been asked at most once; and, every external process and prompt     *)
(* ending, an invocation that has been entered returns to its caller       *)
(* (unless the installer itself is killed meanwhile).                      *)
(***************************************************************************)
C11_BoundedRecoveryTerminates ==
  /\ [](/\ Count(L, "attempt") <= 2
        /\ Count(L, "pacman") <= 1
        /\ Count(L, "probe") <= 1
        /\ Count(L, "prompt") <= 1
        /\ Len(L) <= 5)
  /\ (InProgress ~> (cmd.phase = "ret" \/ pc = "off"))

C11_Witness ==
  /\ cmd.phase = "ret"
  /\ Count(L, "attempt") = 2
  /\ Count(L, "pacman") = 1
  /\ Count(L, "probe") = 1
  /\ L[5].env.spawned.spawn = "NotFound"
  /\ cmd.op = "run_capture"

(***************************************************************************)
(* C12. Checkpoint round trip, stated for the records that are checkpoints *)
(* (counter >= 1; a record with counter 0 loads as "no checkpoint"): load  *)
(* after save yields the record that was saved.  A fact with leading or    *)
(* trailing white space refutes it: load trims every value.                *)
(***************************************************************************)
C12_RoundTrip ==
  (pc = "session_loaded" /\ sess.last_step >= 1) => loc.saved = Some(sess)

(***************************************************************************)
(* C13. A file that is absent and a file whose counter is 0 (also one with *)
(* only step=0, and one with facts but no step line) load alike as None,   *)
(* and a run started on either goes from check_resume to step 1 with the   *)
(* default record, without the resume prompt.                              *)
(***************************************************************************)
C13_NoCheckpointAlike ==
  /\ [](CounterOf(file) = 0 => (load(file) = None /\ load(file) = load(NoFile)))
  /\ [][(pc = "check_resume" /\ CounterOf(file) = 0)
        => /\ pc' = "step1"
           /\ sess' = SessionDefault
           /\ resume' = "fresh"
           /\ loaded' = 0
           /\ executed' = <<>>
           /\ file' = file]_vars

C13_Witness ==
  /\ pc = "step1"
  /\ resume = "fresh"
  /\ file = FileWith(KvLine(KeyStep, <<"0">>) \o KvLine(KeyDisk, SDA))

(***************************************************************************)
(* C14. Save is atomic for a reader: no step of a save, followed or not by *)
(* a crash or a failure, leaves the file loading as anything but the       *)
(* record it held before that step or the new record.  File::create        *)
(* refutes it: it truncates the file before write_all runs, and the empty  *)
(* file loads as "no checkpoint".                                          *)
(***************************************************************************)
C14_SaveAtomic ==
  [][(pc = "save_write" \/ pc' = "save_write")
     => load(file') \in {load(file), Some(sess')}]_vars

(***************************************************************************)
(* C15. Every record written to the checkpoint file has a counter >= 1     *)
(* and holds the facts of the steps up to its counter (disk from 2 on, EFI *)
(* and root partition from 3 on, kernel from 7 on): this holds of the      *)
(* record a save is about to write and of whatever text the file holds,    *)
(* which is exactly the text of such a record; no text with counter 0 is   *)
(* ever in the file.                                                       *)
(***************************************************************************)
C15_PersistedRecordsComplete ==
  /\ pc = "save_write" => FactsComplete(sess)
  /\ (file.exists /\ file.content # <<>>) =>
       LET onfile == load(file)
           rec == Unwrap(onfile)
       IN /\ onfile # None
          /\ rec.last_step >= 1
          /\ FactsComplete(rec)
          /\ file.content = Serialize(rec)

C15_Witness ==
  /\ file.exists
  /\ CounterOf(file) = 7
  /\ Unwrap(load(file)).kernel = Some("Zen")
  /\ Unwrap(load(file)).swap_partition = None
  /\ pc = "install_desktop"

(***************************************************************************)
(* C16. A failing save is not fatal: the transition on which a save fails  *)
(* leaves the step completed in memory, continues with the next step, and  *)
(* nothing is reported; and all that a failed save costs after an          *)
(* interruption is the steps whose saves failed: outside a save, the       *)
(* counter in the file is behind the counter in memory by at most the      *)
(* number of failed saves.  A write_all that fails after File::create has  *)
(* truncated the file refutes the last part: the whole checkpoint is lost. *)
(***************************************************************************)
C16_SaveFailureNotFatal ==
  /\ [][io_faults' = io_faults + 1
        => /\ pc' = AfterSave(sess'.last_step)
           /\ sess'.last_step \in completed'
           /\ sess'.last_step >= 1
           /\ exit_status' = 0
           /\ reported' = Ok
           /\ last_save' = "err"]_vars
  /\ []((Running /\ pc # "save_write")
        => sess.last_step - FileStep <= io_faults)

(***************************************************************************)
(* C17. Mount special case.  A run at step 4 calls the mount action        *)
(* whatever counter k it started from, and no run is past step 4 without   *)
(* having called it; while the action runs the record and the file do not  *)
(* change; when the action has succeeded, the counter becomes 4 and the    *)
(* record is saved if k < 4, and if k >= 4 the counter in memory stays k,  *)
(* the file is not touched and the run goes on to step 5.                  *)
(***************************************************************************)
C17_MountSpecialCase ==
  /\ []((pc \in MountLabels \cup PastMountLabels)
        => \E j \in 1..Len(executed) : executed[j] = 4)
  /\ [][pc' # "off" =>
        /\ pc = "step4"
           => /\ pc' = "mount_root"
              /\ executed' = Append(executed, 4)
              /\ cmd'.program = "mount"
              /\ sess' = sess /\ file' = file
        /\ (pc \in MountLabels /\ ~(pc = "mount_efi" /\ Ret /\ cmd.result = Ok))
           => (sess' = sess /\ file' = file)
        /\ (pc = "mount_efi" /\ Ret /\ cmd.result = Ok)
           => IF StartCounter < 4
              THEN /\ sess.last_step = 3
                   /\ sess' = [sess EXCEPT !.last_step = 4]
                   /\ 4 \in completed'
                   /\ \/ pc' = "save_write" /\ file' = FileWith(<<>>)
                      \/ /\ pc' = "step5" /\ file' = file
                         /\ io_faults' = io_faults + 1
              ELSE /\ sess.last_step = StartCounter
                   /\ sess' = sess
                   /\ file' = file
                   /\ io_faults' = io_faults
                   /\ pc' = "step5"
    ]_vars

C17_Witness ==
  /\ resume = "accepted"
  /\ loaded = 6
  /\ executed = <<4>>
  /\ pc = "step5"
  /\ sess.last_step = 6
  /\ FileStep = 6

(***************************************************************************)
(* C18. The complete state.  A process has exited with status 0 only by a  *)
(* transition out of the last call of step 9 (the chroot question answered *)
(* no, or artix-chroot returned success), with steps 1..8 completed and    *)
(* the counter at 8; in that state nothing was reported, step 9 is the     *)
(* last step executed and the file is gone, so that no checkpoint loads.   *)
(* The next launch finds no file and goes through check_resume to step 1   *)
(* with the default record, never to the resume prompt.  (Session::clear   *)
(* is taken to remove the file it is asked to remove.)                     *)
(***************************************************************************)
C18_CompleteOnlyAfterClear ==
  /\ []((pc = "exited" /\ exit_status = 0)
        => /\ file = NoFile
           /\ load(file) = None
           /\ reported = Ok
           /\ sess.last_step = 8
           /\ executed # <<>>
           /\ executed[Len(executed)] = 9)
  /\ [][/\ (pc # "exited" /\ pc' = "exited" /\ exit_status' = 0)
           => /\ \/ pc = "confirm_chroot"
                 \/ pc = "artix_chroot" /\ Ret /\ cmd.result = Ok
              /\ \A i \in 1..8 : i \in completed
        /\ (pc = "exited" /\ exit_status = 0)
           => (pc' = "check_root" /\ file' = NoFile)
        /\ (pc \in {"check_root", "check_resume"} /\ file = NoFile
            /\ pc' \notin {"off", "exited"})
           => /\ file' = NoFile
              /\ pc' \in {"check_resume", "step1"}
              /\ pc' = "step1" => (sess' = SessionDefault /\ resume' = "fresh")
    ]_vars

C18_Witness ==
  /\ pc = "exited"
  /\ exit_status = 0
  /\ runs = 2
  /\ resume = "accepted"
  /\ loaded = 8
  /\ executed = <<4, 9>>
  /\ file = NoFile

(***************************************************************************)
(* C19. With dry-run enabled no operation of the command runner spawns a   *)
(* process, opens a file or asks anything (its invocation has no event),   *)
(* and every operation returns success.  The four operations refute it:    *)
(* none of them reads the flag, so the first command of a dry run          *)
(* (cfdisk, through run_interactive) is spawned like any other.            *)
(***************************************************************************)
C19_DryRunSpawnsNothing ==
  is_dry_run =>
    /\ L = <<>>
    /\ Ret => cmd.result = Ok

(***************************************************************************)
(* C20. Outcome classification.  Each attempt has the one outcome the rule *)
(* gives it: executable not located -> CommandNotFound(program); another   *)
(* spawn error -> Io; ran and did not succeed -> CommandFailed(program,    *)
(* exit code, or -1 without one); otherwise success.  The outcome of the   *)
(* first attempt is what the operation returns, except CommandNotFound,    *)
(* which starts the recovery; the outcome of the second attempt is what    *)
(* the operation returns.  Only CommandFailed carries an exit code, and    *)
(* that code is never 0.                                                   *)
(***************************************************************************)
C20_OutcomeClassification ==
  /\ Len(L) = 1 =>
       /\ L[1].ev = "attempt"
       /\ IF Outcome(cmd.program, L[1].env).kind = "CommandNotFound"
          THEN cmd.phase = "confirm"
          ELSE cmd.phase = "ret" /\ cmd.result = Outcome(cmd.program, L[1].env)
  /\ Len(L) = 5 =>
       /\ L[5].ev = "attempt"
       /\ cmd.phase = "ret"
       /\ cmd.result = Outcome(cmd.program, L[5].env)
  /\ cmd.result.kind \in {"Ok", "Io", "Prompt", "CommandNotFound",
                          "CommandFailed"}
  /\ cmd.result.kind = "CommandFailed" => cmd.result.code # 0
  /\ cmd.result.kind # "CommandFailed" => cmd.result.code = 0
  /\ cmd.result.kind \in {"Ok", "Io", "Prompt"} => cmd.result.program = ""

C20_Witness ==
  /\ Len(L) = 5
  /\ L[5].env.spawned.spawn = "Ran"
  /\ ~L[5].env.spawned.has_code
  /\ cmd.result = CommandFailed("mkswap", -1)

(***************************************************************************)
(* C21. The progress indicator is stopped before the result of the         *)
(* operation it accompanies is inspected: while an indicator ticks, the    *)
(* operation it accompanies has not been classified, so nothing has been   *)
(* logged and no arm of the match on the first attempt has been taken.     *)
(* fstab::generate refutes it: its indicator ticks through the whole of    *)
(* run_append_to_file, classification and recovery included.               *)
(***************************************************************************)
C21_IndicatorStoppedBeforeInspection ==
  loc.pb = "ticking" => (cmd.phase = "attempt" /\ L = <<>>)

(***************************************************************************)
(* C22. When the operator declines a required confirmation inside a step   *)
(* (launch cfdisk: step 2, format the partitions: step 3, proceed with     *)
(* the base installation: step 6), the step yields Cancelled, which is     *)
(* neither CommandFailed nor CommandNotFound; the run has aborted with     *)
(* that error, the declined step is the last one executed, and neither     *)
(* the counter in memory nor the one in the file has reached that step.    *)
(***************************************************************************)
C22_DeclineYieldsCancelled ==
  answer = "no" =>
    /\ pc = "exited"
    /\ exit_status = 1
    /\ reported = Cancelled
    /\ reported.kind \notin {"CommandFailed", "CommandNotFound", "Ok"}
    /\ \A p \in {"cfdisk", "mkfs.fat", "basestrap"}, c \in -1..MaxExitCode :
         reported # CommandFailed(p, c) /\ reported # CommandNotFound(p)
    /\ LastExecuted \in {2, 3, 6}
    /\ sess.last_step < LastExecuted
    /\ CounterOf(file) < LastExecuted
    /\ cmd = NoCmd

\* the operator declines the base installation in a run resumed at 5
C22_Witness ==
  /\ answer = "no"
  /\ pc = "exited"
  /\ reported = Cancelled
  /\ resume = "accepted"
  /\ LastExecuted = 6
  /\ FileStep = 5

(***************************************************************************)
(* C23. The self-healing controller wraps the four operations alike: for   *)
(* an invocation of any of them whose attempts got to spawn, the events    *)
(* so far are a prefix of attempt, prompt, pacman, probe, attempt, and     *)
(* both what the controller does next and the result it returns are the    *)
(* same function of the environment's responses, in which the operation    *)
(* does not appear.                                                        *)
(***************************************************************************)
C23_ControllerSameForAllOps ==
  (cmd.phase # "none" /\ \A i \in 1..Len(L) : L[i].env.open_ok) =>
    /\ cmd.op \in WrappedOps
    /\ Len(L) <= 5
    /\ \A i \in 1..Len(L) : L[i].ev = RecoveryScript[i]
    /\ cmd.phase = NextOf(L)
    /\ Ret => cmd.result = ResultOf(cmd.program, L)

\* a full recovery of run_append_to_file, after cfdisk (run_interactive),
\* lsblk (run_capture) and mkfs.fat (run_with_spinner) were invoked too
C23_Witness ==
  /\ Ret
  /\ cmd.op = "run_append_to_file"
  /\ Len(L) = 5
  /\ cmd.result = CommandFailed("fstabgen", 1)
  /\ {2, 3} \subseteq {executed[i] : i \in 1..Len(executed)}

(***************************************************************************)
(* C24. The dependency resolver is a total function of the program name:   *)
(* mkfs.fat resolves to dosfstools, mount to util-linux, ntpd to ntp,      *)
(* every program of the table to one of the eight packages, every other    *)
(* program to itself; and the package named in the install prompt and      *)
(* handed to pacman during self-healing is the resolver's result for the   *)
(* program of the invocation.                                              *)
(***************************************************************************)
C24_ResolverFeedsPacman ==
  /\ package_for("mkfs.fat") = "dosfstools"
  /\ package_for("mount") = "util-linux"
  /\ package_for("ntpd") = "ntp"
  /\ cmd.program \in TablePrograms =>
       package_for(cmd.program) \in {"dosfstools", "e2fsprogs", "btrfs-progs",
                                     "xfsprogs", "util-linux", "artools",
                                     "openrc", "ntp"}
  /\ cmd.program \notin TablePrograms => package_for(cmd.program) = cmd.program
  /\ \A i \in 1..Len(L) :
       /\ L[i].ev \in {"prompt", "pacman"} => L[i].what = package_for(cmd.program)
       /\ L[i].ev \in {"attempt", "probe"} => L[i].what = cmd.program

\* pacman was handed dosfstools for mkfs.fat, and the probe and the retry
\* were for mkfs.fat itself
C24_Witness ==
  /\ Ret
  /\ cmd.program = "mkfs.fat"
  /\ Len(L) = 5
  /\ L[3].ev = "pacman" /\ L[3].what = "dosfstools"
  /\ L[4].what = "mkfs.fat"

(***************************************************************************)
(* C25. The kernel variant and its on-disk token: reading the token of a   *)
(* variant gives the variant back, the three tokens are pairwise distinct, *)
(* a saved kernel choice is loaded unchanged, and a token that is none of  *)
(* the three is loaded as Stable.                                          *)
(***************************************************************************)
C25_KernelTokenMapping ==
  /\ \A v \in KernelVariant : from_str(as_str(v)) = v
  /\ \A v, w \in KernelVariant : v # w => as_str(v) # as_str(w)
  /\ \A tok \in UnknownTokens :
       /\ tok \notin {as_str(v) : v \in KernelVariant}
       /\ from_str(tok) = "Stable"
  /\ (pc = "session_loaded" /\ sess.last_step >= 1) =>
       /\ loc.saved # None
       /\ Unwrap(loc.saved).kernel = sess.kernel
  /\ (pc = "resume_confirm" /\ \E tok \in UnknownTokens :
         file = FileWith(KvLine(KeyStep, <<"7">>) \o KvLine(KeyKernel, tok))) =>
       /\ loc.saved # None
       /\ Unwrap(loc.saved).kernel = Some("Stable")
       /\ Unwrap(loc.saved).last_step = 7

\* a record with the zen kernel has gone through save and load
C25_Witness ==
  /\ pc = "session_loaded"
  /\ sess.last_step = 3
  /\ sess.kernel = Some("Zen")
  /\ Unwrap(loc.saved).kernel = Some("Zen")

(***************************************************************************)
(* C26. Session::load is forward compatible: lines with an unknown key and *)
(* lines without the shape key=value are ignored, so the record loaded     *)
(* from a file is the record loaded from that file with those lines        *)
(* removed, and check_resume hands on that record.                         *)
(***************************************************************************)
C26_LoadIgnoresUnknownLines ==
  /\ load(file) = load(Cleaned(file))
  /\ pc = "resume_confirm" => loc.saved = load(Cleaned(file))
  /\ (pc = "step1" /\ resume = "fresh") => load(Cleaned(file)) = None

\* a file with an unknown key, an empty key and a key in capitals among
\* the lines for counter 4 and disk /dev/sda was loaded
C26_Witness ==
  /\ pc = "resume_confirm"
  /\ HasIgnoredLine(file)
  /\ Cleaned(file) # file
  /\ loc.saved = Some([SessionDefault EXCEPT !.last_step = 4,
                                             !.disk = Some(SDA)])

(***************************************************************************)
(* C27. run_best_effort never returns an error and never starts            *)
(* self-healing: whether swapoff succeeds, exits nonzero, is killed, is    *)
(* missing or cannot be spawned, the call returns success with no          *)
(* invocation of the controller in progress (no prompt, no pacman, no      *)
(* probe), the run has reported nothing, and the mount step goes on to     *)
(* swapon.                                                                 *)
(***************************************************************************)
C27_BestEffortNeverFails ==
  /\ [](pc = "swapoff_ret" =>
          /\ loc.best_effort.called
          /\ loc.best_effort.spawned \in SpawnResults
          /\ loc.best_effort.result = Ok
          /\ cmd = NoCmd
          /\ reported = Ok
          /\ exit_status = 0)
  /\ [][/\ pc = "swapoff" => pc' \in {"swapoff_ret", "off"}
        /\ pc = "swapoff_ret" =>
             \/ pc' = "off"
             \/ /\ pc' = "swapon"
                /\ cmd' = StartCmd("run_with_spinner", "swapon")
                /\ reported' = Ok
                /\ sess' = sess
                /\ file' = file
                /\ executed' = executed]_vars

\* swapoff was not found, and the mount step is about to call swapon
C27_Witness ==
  /\ pc = "swapoff_ret"
  /\ loc.best_effort.spawned.spawn = "NotFound"
  /\ loc.best_effort.result = Ok
  /\ LastExecuted = 4

(***************************************************************************)
(* C28. Within a run the counter in memory never decreases; the step that  *)
(* completes and is saved raises it by exactly one, to its own number; no  *)
(* other step of the run changes it.  The counter in the file never        *)
(* exceeds the one in memory, and equals it once a save has succeeded.     *)
(***************************************************************************)
C28_CounterMonotone ==
  /\ [](HasRecord =>
          LET k == CounterOf(file)
          IN /\ k <= sess.last_step
             /\ (last_save = "ok" /\ pc # "save_write") => k = sess.last_step)
  /\ [][/\ (HasRecord /\ pc' # "off") =>
             /\ sess'.last_step >= sess.last_step
             /\ sess'.last_step <= sess.last_step + 1
        /\ (HasRecord /\ sess'.last_step # sess.last_step /\ pc' # "off") =>
             /\ sess'.last_step = LastExecuted'
             /\ sess'.last_step \in completed'
        /\ (pc # "save_write" /\
            (pc' = "save_write" \/ io_faults' = io_faults + 1)) =>
             sess'.last_step = sess.last_step + 1
        /\ (pc = "save_write" /\ last_save' = "ok") =>
             (sess' = sess /\ CounterOf(file') = sess.last_step)]_vars

\* a run resumed at 4 has mounted again without a change of the counter,
\* and has then completed and saved step 5
C28_Witness ==
  /\ resume = "accepted"
  /\ loaded = 4
  /\ executed = <<4, 5>>
  /\ pc = "step6"
  /\ last_save = "ok"
  /\ sess.last_step = 5
  /\ FileStep = 5

(***************************************************************************)
(* C29. Completing step i changes, in the record, only the counter and the *)
(* facts step i itself produces; no other step of a run changes the        *)
(* record; a successful save writes the whole record; and in a resumed     *)
(* run the facts that were loaded from the checkpoint stay in the file.    *)
(* The last part is refuted by a save whose write fails after File::create *)
(* has truncated the file: the file then holds no fact at all.             *)
(***************************************************************************)
\* the record part of C29 and its part on the saves that succeed
RecordFrame ==
  [][(HasRecord /\ pc' # "off") =>
       /\ sess' # sess =>
            /\ sess'.last_step = LastExecuted'
            /\ \A f \in FactNames \ Produces(sess'.last_step) :
                 sess'[f] = sess[f]
       /\ (pc = "save_write" /\ last_save' = "ok") =>
            /\ sess' = sess
            /\ file' = FileWith(Serialize(sess))
            /\ load(file') = Some(sess)]_vars

C29_EarlierFactsKept ==
  /\ []((HasRecord /\ pc # "save_write" /\ resume = "accepted") =>
          LET onfile == load(file)
          IN \A f \in FactsUpTo(loaded) :
               /\ onfile # None
               /\ Unwrap(onfile)[f] = sess[f])
  /\ RecordFrame

(***************************************************************************)
(* C30. After the operator has declined the resume, the run starts with    *)
(* counter 0 and no fact, and nothing of the process holds a value of the  *)
(* old checkpoint: record, locals and command are the initial ones and the *)
(* file is gone.  From there on the steps run in order from step 1, every  *)
(* fact of the record was produced by a step of this run and is the        *)
(* operator's choice in this run, and every fact in the file is a fact of  *)
(* this record.                                                            *)
(***************************************************************************)
C30_DeclineDropsOldFacts ==
  resume = "declined" =>
    /\ executed = <<>> =>
         /\ pc = "step1"
         /\ sess.last_step = 0
         /\ \A f \in FactNames : sess[f] = None
         /\ loc = NoLoc
         /\ cmd = NoCmd
         /\ ~file.exists
    /\ \A j \in 1..Len(executed) : executed[j] = j
    /\ \A f \in FactNames :
         sess[f] # None => \E j \in 1..Len(executed) : f \in Produces(executed[j])
    /\ Running =>
         /\ sess.disk \in {None, Some(loc.disk)}
         /\ sess.efi_partition \in {None, Some(loc.config.efi_partition)}
         /\ sess.root_partition \in {None, Some(loc.config.root_partition)}
         /\ sess.swap_partition \in {None, loc.config.swap_partition}
         /\ sess.kernel \in {None, Some(loc.kernel)}
    /\ LET onfile == load(file)
       IN onfile # None =>
            \A f \in FactNames : Unwrap(onfile)[f] \in {None, sess[f]}

\* the old checkpoint had counter 3; the new run has chosen /dev/sdb with
\* swap, formatted, and saved that
C30_Witness ==
  /\ resume = "declined"
  /\ loaded = 3
  /\ pc = "step4"
  /\ sess.disk = Some(SDB)
  /\ sess.swap_partition = Some(Append(SDB, "2"))
  /\ load(file) = Some(sess)

(***************************************************************************)
(* C31. The counter of the record and the counter in the file never exceed *)
(* 8 and step 9 is never among the completed steps: run() assigns the      *)
(* counter after steps 1..8 only.  Step 9 has no gate: whatever counter    *)
(* was loaded, a run that has gone past the label of step 9 has called     *)
(* fstab::generate as its last step action, and a run that ended with Ok   *)
(* has done so too.                                                        *)
(***************************************************************************)
Step9Labels == {"fstabgen", "confirm_chroot", "artix_chroot"}

C31_CounterAtMostEight ==
  /\ sess.last_step <= 8
  /\ CounterOf(file) <= 8
  /\ 9 \notin completed
  /\ (pc \in Step9Labels \/ (pc = "exited" /\ exit_status = 0)) =>
       /\ executed # <<>>
       /\ executed[Len(executed)] = 9
       /\ \A j \in 1..(Len(executed) - 1) : executed[j] # 9

\* a run resumed from the checkpoint of step 8 has generated fstab and asks
\* about the chroot; the file still carries 8
C31_Witness ==
  /\ resume = "accepted"
  /\ loaded = 8
  /\ pc = "confirm_chroot"
  /\ executed[Len(executed)] = 9
  /\ sess.last_step = 8
  /\ CounterOf(file) = 8

(***************************************************************************)
(* C32. NotFound, the operator accepts, and pacman itself cannot be        *)
(* located: the operation returns CommandNotFound naming pacman, not the   *)
(* program that was looked for, and the spawn of pacman is the last event: *)
(* one attempt, one prompt (none about pacman), no probe, no retry.        *)
(***************************************************************************)
\* the spawn of pacman failed with ErrorKind::NotFound
PacmanMissing ==
  Len(L) >= 3 /\ L[3].ev = "pacman" /\ L[3].env.spawned.spawn = "NotFound"

C32_PacmanMissingIsNotFound ==
  (FirstNotFound /\ Answered("yes") /\ PacmanMissing) =>
    /\ cmd.phase = "ret"
    /\ cmd.result = CommandNotFound("pacman")
    /\ cmd.program # "pacman" => cmd.result # CommandNotFound(cmd.program)
    /\ Len(L) = 3
    /\ Count(L, "attempt") = 1
    /\ Count(L, "prompt") = 1
    /\ L[2].what = package_for(cmd.program)
    /\ Count(L, "probe") = 0

\* fstabgen of artools was looked for by run_append_to_file
C32_Witness ==
  /\ FirstNotFound /\ Answered("yes") /\ PacmanMissing
  /\ cmd.op = "run_append_to_file"
  /\ cmd.program = "fstabgen"
  /\ L[2].what = "artools"
  /\ cmd.result = CommandNotFound("pacman")

(***************************************************************************)
(* C33. The step value Session::load goes by (that of the last step line,  *)
(* blanks around it aside) counts as the integer it denotes when it is a   *)
(* decimal integer in 0..255, and as 0 otherwise: when it has no digits,   *)
(* has another character among them, is negative or is above 255.  With    *)
(* 0 load yields no checkpoint and the run starts fresh; every value in    *)
(* 1..255 is the counter of the loaded record, 9 and above included, and   *)
(* is what check_resume offers to resume from.                             *)
(***************************************************************************)
\* the text is made of decimal digits, at least one
AllDigits(v) == v # <<>> /\ \A i \in 1..Len(v) : DigitVal(v[i]) >= 0

RECURSIVE DecValue(_)
\* the number a text of decimal digits denotes
DecValue(v) ==
  IF v = <<>> THEN 0
  ELSE DecValue(SubSeq(v, 1, Len(v) - 1)) * 10 + DigitVal(v[Len(v)])

\* the text denotes an integer in decimal notation: digits, or a sign and
\* digits
IsDecimalInteger(v) ==
  \/ AllDigits(v)
  \/ v # <<>> /\ Head(v) \in {"+", "-"} /\ AllDigits(Tail(v))

IntegerOf(v) ==
  IF Head(v) = "-" THEN 0 - DecValue(Tail(v))
  ELSE IF Head(v) = "+" THEN DecValue(Tail(v))
  ELSE DecValue(v)

\* what the claim says a step value counts as
CountsAs(v) ==
  IF IsDecimalInteger(v) /\ IntegerOf(v) \in 0..255 THEN IntegerOf(v) ELSE 0

\* the lines of a file that are step lines
StepLines(f) ==
  SelectSeq(Lines(f.content),
            LAMBDA l : /\ IndexOf(l, "=") > 0
                       /\ Trim(SubSeq(l, 1, IndexOf(l, "=") - 1)) = KeyStep)

\* the value of the last step line of a file that has one
LastStepValue(f) ==
  LET l == StepLines(f)[Len(StepLines(f))]
  IN Trim(SubSeq(l, IndexOf(l, "=") + 1, Len(l)))

\* the file has a step line
HasStepLine(f) == f.exists /\ StepLines(f) # <<>>

C33_StepValueParsing ==
  HasStepLine(file) =>
    LET onfile == load(file)
        n == CountsAs(LastStepValue(file))
    IN /\ n = 0 => onfile = None
       /\ n \in 1..255 => (onfile # None /\ Unwrap(onfile).last_step = n)
       /\ pc = "resume_confirm" =>
            /\ n \in 1..255
            /\ loaded = n
            /\ Unwrap(loc.saved).last_step = n
       /\ (pc = "step1" /\ resume = "fresh") => n = 0

\* a file with step=255 was loaded and the resume from 255 is offered
C33_Witness ==
  /\ pc = "resume_confirm"
  /\ file = FileWith(KvLine(KeyStep, <<"2", "5", "5">>) \o KvLine(KeyDisk, SDA))
  /\ loaded = 255
  /\ loaded > Len(StepLabels)
  /\ Unwrap(loc.saved).disk = Some(SDA)

====
